---- MODULE Spec2Model ----
(***************************************************************************)
(* Model of the interview-validation pipeline and its content-addressed    *)
(* caches: AIReportGenerator (src/ai_report_generator.py),                 *)
(* SpeechAnalysisCache (src/chroma_cache.py) and                           *)
(* ContentValidator.validate_video (src/content_validator.py).             *)
(*                                                                         *)
(* Numbers: scores are kept in hundredths (8001 is 80.01) and weighted     *)
(* sums in thousandths of a hundredth, so the arithmetic is exact.         *)
(***************************************************************************)
EXTENDS Integers, Sequences, FiniteSets, TLC

(***************************************************************************)
(* Bounds of the model.                                                    *)
(***************************************************************************)
MaxReportCalls == 3

MaxMalformed == 1

MaxStoreWrites == 3

ReadLimit == 2

MaxAudioOps == 4

(***************************************************************************)
(* Python values.  A value is a record with a type tag; a dict is the      *)
(* sequence of its (key, value) pairs in construction order, which is the  *)
(* order a Python dict iterates in.                                        *)
(***************************************************************************)
Num(n) == [t |-> "num", n |-> n, s |-> "", d |-> <<>>]

Str(s) == [t |-> "str", n |-> 0, s |-> s, d |-> <<>>]

Dict(pairs) == [t |-> "dict", n |-> 0, s |-> "", d |-> pairs]

KV(k, v) == [k |-> k, v |-> v]

\* The keys of an analysis record in the order Python compares strings.
KeyOrder ==
    << "audio_analysis", "clarity_score", "confidence_score", "duration_seconds",
       "engagement", "eye_contact", "facial_expressions", "genuineness",
       "metrics", "overall_energy", "overall_sentiment", "pace_score",
       "posture", "speech_analysis", "summary", "transcript",
       "upright_confident", "video_analysis", "words_per_minute" >>

KeyRank(k) == CHOOSE i \in 1..Len(KeyOrder) : KeyOrder[i] = k

Reverse(s) == [i \in 1..Len(s) |-> s[Len(s) + 1 - i]]

Range(s) == { s[i] : i \in 1..Len(s) }

\* How many keys of a dict come before the key of its j-th pair.
KeysBefore(pairs, j) ==
    Cardinality({ i \in 1..Len(pairs) : KeyRank(pairs[i].k) < KeyRank(pairs[j].k) })

\* sorted(d.items()): the pairs of a dict (its keys are distinct) by key.
SortPairs(pairs) ==
    [n \in 1..Len(pairs) |->
        pairs[CHOOSE j \in 1..Len(pairs) : KeysBefore(pairs, j) = n - 1]]

\* The order json.dumps walks a dict in.
KeepOrder(pairs) == pairs

DumpOrder(pairs) == SortPairs(pairs)

Tok(t, s, n) == [t |-> t, s |-> s, n |-> n]

\* json.dumps(value, sort_keys=True) as the sequence of tokens it writes.
RECURSIVE json_dumps_sorted(_)
RECURSIVE DumpPairs(_, _)
\* The pairs from position i on, separated by commas.
DumpPairs(pairs, i) ==
    IF i > Len(pairs) THEN <<>>
    ELSE << Tok("key", pairs[i].k, 0) >>
         \o json_dumps_sorted(pairs[i].v)
         \o (IF i < Len(pairs) THEN << Tok("punct", ",", 0) >> ELSE <<>>)
         \o DumpPairs(pairs, i + 1)

json_dumps_sorted(v) ==
    IF v.t = "num" THEN << Tok("num", "", v.n) >>
    ELSE IF v.t = "str" THEN << Tok("str", v.s, 0) >>
    ELSE << Tok("punct", "{", 0) >> \o DumpPairs(DumpOrder(v.d), 1)
         \o << Tok("punct", "}", 0) >>

\* dict.get / dict[key] on a dict value; Missing when the key is absent.
Missing == [t |-> "missing", n |-> 0, s |-> "", d |-> <<>>]

Lookup(v, key) ==
    IF \E i \in 1..Len(v.d) : v.d[i].k = key
    THEN v.d[CHOOSE i \in 1..Len(v.d) : v.d[i].k = key].v
    ELSE Missing

\* A dict as the map Python's == compares: keys to values, order forgotten.
RECURSIVE AsMap(_)
AsMap(v) ==
    IF v.t = "dict"
    THEN [t |-> "dict", n |-> 0, s |-> "",
          m |-> { << v.d[i].k, AsMap(v.d[i].v) >> : i \in 1..Len(v.d) }]
    ELSE [t |-> v.t, n |-> v.n, s |-> v.s, m |-> {}]

(***************************************************************************)
(* Analysis payloads handed to AIReportGenerator.  Every payload has the   *)
(* keys _calculate_score, _create_prompt and _generate_basic_report read.  *)
(***************************************************************************)
\* The six metrics of _calculate_score: clarity, pace, eye contact,
\* genuineness, posture, engagement.
ZeroMetrics == <<0, 0, 0, 0, 0, 0>>

MixedMetrics == <<80, 75, 60, 70, 90, 85>>

\* The same record with every dict built in the opposite key order.
RECURSIVE Rebuild(_)
Rebuild(v) ==
    IF v.t = "dict"
    THEN Dict(Reverse([i \in 1..Len(v.d) |-> KV(v.d[i].k, Rebuild(v.d[i].v))]))
    ELSE v

ForwardPayload(m) ==
    Dict(<< KV("audio_analysis", Dict(<<
                KV("duration_seconds", Num(60)),
                KV("overall_sentiment", Str("NEUTRAL")),
                KV("speech_analysis", Dict(<<
                    KV("clarity_score", Num(m[1])),
                    KV("pace_score", Num(m[2])),
                    KV("confidence_score", Num(m[1])) >>)),
                KV("summary", Dict(<< KV("words_per_minute", Num(120)) >>)) >>)),
            KV("video_analysis", Dict(<<
                KV("metrics", Dict(<<
                    KV("facial_expressions", Dict(<<
                        KV("eye_contact", Num(m[3])),
                        KV("genuineness", Num(m[4])) >>)),
                    KV("posture", Dict(<< KV("upright_confident", Num(m[5])) >>)),
                    KV("overall_energy", Dict(<< KV("engagement", Num(m[6])) >>)) >>)) >>)),
            KV("transcript", Str("my name is ...")) >>)

\* The same record with only its top-level keys in the opposite order.
RebuildOuter(v) == Dict(Reverse(v.d))

MkPayload(order, m) ==
    IF order = "forward" THEN ForwardPayload(m)
    ELSE IF order = "backward" THEN Rebuild(ForwardPayload(m))
    ELSE IF order = "outer" THEN RebuildOuter(ForwardPayload(m))
    ELSE RebuildOuter(Rebuild(ForwardPayload(m)))

\* The payloads of the model: the all-zero analysis and a mixed one, each
\* built in both key orders.  A call names its payload by position.
PayloadSeq ==
    << MkPayload("forward", ZeroMetrics), MkPayload("backward", ZeroMetrics),
       MkPayload("forward", MixedMetrics), MkPayload("backward", MixedMetrics) >>

PayloadIds == 1..Len(PayloadSeq)

Payloads == { PayloadSeq[i] : i \in PayloadIds }

HalfMetrics == <<50, 50, 50, 50, 50, 50>>

\* Every record generate_hash is given: the payloads, the same two analyses
\* with the key order changed at one level only, and a third analysis in
\* all four orders.
RecordSeq ==
    PayloadSeq \o
    << MkPayload("outer", ZeroMetrics), MkPayload("inner", ZeroMetrics),
       MkPayload("outer", MixedMetrics), MkPayload("inner", MixedMetrics),
       MkPayload("forward", HalfMetrics), MkPayload("backward", HalfMetrics),
       MkPayload("outer", HalfMetrics), MkPayload("inner", HalfMetrics) >>

RecordIds == 1..Len(RecordSeq)

\* The serialized text of every record.
JsonTexts == [i \in RecordIds |-> json_dumps_sorted(RecordSeq[i])]

\* hashlib.md5(text).hexdigest(): a digest determined by the text hashed and
\* taken collision-free; the digest of a text is written as the first
\* position of the text in JsonTexts.
md5(text) ==
    << "md5", CHOOSE i \in RecordIds :
                  /\ JsonTexts[i] = text
                  /\ \A j \in 1..(i - 1) : JsonTexts[j] # text >>

\* AIReportGenerator.generate_hash
generate_hash(analysis_data) == md5(json_dumps_sorted(analysis_data))

\* generate_hash of every payload, computed once.
HashOf == [i \in PayloadIds |-> generate_hash(PayloadSeq[i])]

DigestOf == [i \in RecordIds |-> generate_hash(RecordSeq[i])]

Path2(v, a, b) == Lookup(Lookup(v, a), b)

Path3(v, a, b, c) == Lookup(Path2(v, a, b), c)

Path4(v, a, b, c, d) == Lookup(Path3(v, a, b, c), d)

clarity_of(p) == Path3(p, "audio_analysis", "speech_analysis", "clarity_score").n

pace_of(p) == Path3(p, "audio_analysis", "speech_analysis", "pace_score").n

eye_contact_of(p) ==
    Path4(p, "video_analysis", "metrics", "facial_expressions", "eye_contact").n

genuineness_of(p) ==
    Path4(p, "video_analysis", "metrics", "facial_expressions", "genuineness").n

posture_of(p) ==
    Path4(p, "video_analysis", "metrics", "posture", "upright_confident").n

engagement_of(p) ==
    Path4(p, "video_analysis", "metrics", "overall_energy", "engagement").n

\* AIReportGenerator._calculate_score: int(sum / 6) of non-negative metrics.
calculate_score(p) ==
    (clarity_of(p) + pace_of(p) + eye_contact_of(p) + genuineness_of(p)
     + posture_of(p) + engagement_of(p)) \div 6

(***************************************************************************)
(* Report texts.  A text is what the generation service answered, the      *)
(* locally assembled basic report, or None.                                *)
(***************************************************************************)
NoneText == [kind |-> "none", n |-> 0, fields |-> <<>>]

ModelText(i) == [kind |-> "model", n |-> i, fields |-> <<>>]

\* The answers model.generate_content can give (response.text, never empty).
ModelTexts == { ModelText(1), ModelText(2) }

NoneScore == -1

\* AIReportGenerator._generate_recommendations
generate_recommendations(p) ==
    LET recs == (IF clarity_of(p) < 90 THEN <<"clarity">> ELSE <<>>)
                \o (IF pace_of(p) < 90 THEN <<"pace">> ELSE <<>>)
                \o (IF eye_contact_of(p) < 90 THEN <<"eye_contact">> ELSE <<>>)
                \o (IF posture_of(p) < 90 THEN <<"posture">> ELSE <<>>)
    IN  IF recs = <<>> THEN <<"continue">> ELSE recs

\* AIReportGenerator._generate_basic_report: the report is a function of the
\* fields it interpolates and of the score.
generate_basic_report(p, score) ==
    [kind |-> "basic", n |-> score,
     fields |-> << <<"clarity_score", clarity_of(p)>>,
                   <<"pace_score", pace_of(p)>>,
                   <<"eye_contact", eye_contact_of(p)>>,
                   <<"genuineness", genuineness_of(p)>>,
                   <<"upright_confident", posture_of(p)>>,
                   <<"engagement", engagement_of(p)>>,
                   <<"recommendations", generate_recommendations(p)>> >>]

\* Python truthiness of the two values generate_report tests at line 124.
TextTruthy(text) == text.kind # "none"

ScoreTruthy(score) == score # NoneScore /\ score # 0

\* Score and basic report of every payload, computed once.
ScoreOf == [i \in PayloadIds |-> calculate_score(PayloadSeq[i])]

BasicOf ==
    [i \in PayloadIds |->
        generate_basic_report(PayloadSeq[i], calculate_score(PayloadSeq[i]))]

(***************************************************************************)
(* Stored documents and the collection.  A document is the JSON text kept  *)
(* under an id; the collection is the sequence of its entries.             *)
(***************************************************************************)
ObjectDoc(hasText, text, hasScore, score) ==
    [k |-> "object", hasText |-> hasText, text |-> text,
     hasScore |-> hasScore, score |-> score]

\* A stored string that is not JSON, and JSON that is not an object.
InvalidJsonDoc == [k |-> "invalid", hasText |-> FALSE, text |-> NoneText,
                   hasScore |-> FALSE, score |-> NoneScore]

NonObjectDoc == [k |-> "array", hasText |-> FALSE, text |-> NoneText,
                 hasScore |-> FALSE, score |-> NoneScore]

\* json.dumps({"evaluation_text": ..., "score": ...}) of cache_report.
json_dumps_report(text, score) == ObjectDoc(TRUE, text, TRUE, score)

Entry(id, doc, meta) == [id |-> id, doc |-> doc, meta |-> meta]

\* collection.get(ids=[id]): the documents stored under id, or an exception
\* when the store is not available.
DocumentsOf(entries) == [i \in 1..Len(entries) |-> entries[i].doc]

collection_get(coll, id, up) ==
    [exc |-> ~up,
     docs |-> IF up THEN DocumentsOf(SelectSeq(coll, LAMBDA e : e.id = id))
              ELSE <<>>]

\* A write that adds an entry without looking for the id.
store_append(coll, id, doc, meta) == Append(coll, Entry(id, doc, meta))

\* collection.upsert(ids=[id], ...): replace the entry of id, or add it.
store_upsert(coll, id, doc, meta) ==
    IF \E i \in 1..Len(coll) : coll[i].id = id
    THEN [i \in 1..Len(coll) |->
             IF coll[i].id = id THEN Entry(id, doc, meta) ELSE coll[i]]
    ELSE Append(coll, Entry(id, doc, meta))

(***************************************************************************)
(* SpeechAnalysisCache.  Audio files are byte sequences; ReadLimit stands   *)
(* for the 1024 * 1024 bytes generate_hash reads.                          *)
(***************************************************************************)
\* Two first-ReadLimit-bytes that differ in their last byte.
PrefixA == [i \in 1..ReadLimit |-> 1]

PrefixB == [i \in 1..ReadLimit |-> IF i = ReadLimit THEN 0 ELSE 1]

\* The audio files on disk: a path is a position, the file its content.
\* Three files share PrefixA and two PrefixB; the last is shorter than
\* ReadLimit.
AudioFileSeq ==
    << PrefixA, PrefixA \o <<0>>, PrefixA \o <<1>>,
       PrefixB, PrefixB \o <<1>>, SubSeq(PrefixA, 1, ReadLimit - 1) >>

AudioPaths == 1..Len(AudioFileSeq)

\* A read that returns the whole file.
read_all(content, n) == content

\* f.read(n): the first n bytes, or the whole file when it is shorter.
file_read(content, n) ==
    IF Len(content) <= n THEN content ELSE SubSeq(content, 1, n)

\* hashlib.md5(content).hexdigest(): a digest determined by the bytes hashed
\* and taken collision-free.
bytes_md5(content) == << "md5", content >>

\* SpeechAnalysisCache.generate_hash on the path of an existing file.
speech_generate_hash(path) == bytes_md5(file_read(AudioFileSeq[path], ReadLimit))

AudioHashes == { speech_generate_hash(path) : path \in AudioPaths }

\* The analysis_result analyze_audio builds for a file, and None.
Analysis(path) == [kind |-> "analysis", text |-> AudioFileSeq[path]]

NoAnalysis == [kind |-> "none", text |-> <<>>]

\* json.dumps(analysis_data) and json.loads of a stored document.
json_dumps_analysis(analysis) == [k |-> "object", body |-> analysis]

NoSpeechDoc == [k |-> "absent", body |-> NoAnalysis]

analysis_of_documents(docs) ==
    IF Len(docs) > 0 /\ docs[1].k = "object" THEN docs[1].body ELSE NoAnalysis

\* get_cached_analysis lines 59-86: every exception gives None.
analysis_of_lookup(results) ==
    IF results.exc THEN NoAnalysis ELSE analysis_of_documents(results.docs)

\* SpeechAnalysisCache.get_cached_analysis(audio_path=path)
get_cached_analysis(coll, path, up) ==
    analysis_of_lookup(collection_get(coll, speech_generate_hash(path), up))

\* SpeechAnalysisCache.cache_analysis(analysis, audio_path=path): True and
\* the new collection, or False when upsert raised.
cache_analysis(coll, analysis, path, up) ==
    IF up
    THEN [ok |-> TRUE,
          coll |-> store_upsert(coll, speech_generate_hash(path),
                                json_dumps_analysis(analysis),
                                [audio_filename |-> path])]
    ELSE [ok |-> FALSE, coll |-> coll]

(***************************************************************************)
(* State.                                                                  *)
(***************************************************************************)
VARIABLES
    collection,     \* AIReportGenerator.collection ("ai_reports"): entries
    model,          \* AIReportGenerator.model: "ready", or "none" (init failed)
    ret,            \* what the last generate_report returned: text and score
    raised,         \* an exception left generate_report
    last,           \* the last generate_report call: its inputs and its path
    report_calls,   \* generate_report calls made so far
    gen_calls,      \* fingerprint -> model.generate_content invocations
    first_gen,      \* fingerprint -> result of its first successful generation
    store_failed,   \* a collection get or upsert has raised
    gen_failed,     \* model.generate_content has raised
    malformed_writes, \* entries written to the directory by something else
    speech,         \* SpeechAnalysisCache.collection ("speech_analysis"): entries
    pc,             \* run -> "idle", or "upsert" inside cache_report/cache_analysis
    pending,        \* run -> the arguments of the write it is making
    report_last,    \* fingerprint -> document of its last completed upsert
    speech_last,    \* audio hash -> document of its last completed upsert
    store_writes,   \* cache_report / cache_analysis calls begun so far
    audio_ret,      \* what the last get_cached_analysis returned
    audio_last,     \* the last SpeechAnalysisCache call: operation and file
    audio_ops,      \* SpeechAnalysisCache calls made so far
    cached_for,     \* first bytes of a file -> analysis last cached for them
    hashed,         \* the two records last given to generate_hash
    digests,        \* the fingerprints generate_hash returned for them
    verdict,        \* what the last validate_video returned
    vlast,          \* the last validate_video call: what it was given
    half_up,        \* whether round() takes a half-way value up in this build
    scored,         \* the last scorer call: its input and what it left
    vpc,            \* where the validate_video run in progress stands
    vrun,           \* that run: its arguments, the checks so far, the steps taken
    vprev,          \* the run completed before it: its arguments and verdict
    apc,            \* where the analyze_audio call in progress stands
    arun,           \* that call: its file, the service it meets, the polls made
    loop,           \* a scorer's sampling loop: its stream, its counters
    tsample,        \* a get_transcript_sample call: its files, its polls
    compared        \* two validate_video calls that differ in the transcript

\* AIReportGenerator and the history of its calls.
reportVars == << model, ret, raised, last, report_calls, gen_calls,
                 first_gen, store_failed, gen_failed, malformed_writes >>

\* Independent runs writing to the shared stores.
writerVars == << pc, pending, report_last, speech_last, store_writes >>

\* SpeechAnalysisCache calls of one process.
audioVars == << audio_ret, audio_last, audio_ops, cached_for >>

hashVars == << hashed, digests >>

validateVars == << verdict, vlast >>

\* One scorer called on its own.
scorerVars == << half_up, scored >>

\* A validate_video run taken step by step.
runVars == << vpc, vrun, vprev >>

\* An analyze_audio call taken step by step.
analyzeVars == << apc, arun >>

\* A sampling loop and a get_transcript_sample call taken step by step, and
\* a pair of validate_video calls.
stepVars == << loop, tsample, compared >>

otherVars == << scorerVars, runVars, analyzeVars, stepVars >>

vars == << collection, speech, reportVars, writerVars, audioVars, hashVars,
           validateVars, otherVars >>

Fingerprints == { HashOf[i] : i \in PayloadIds }

Result(text, score) == [text |-> text, score |-> score]

NoResult == Result(NoneText, NoneScore)

(***************************************************************************)
(* AIReportGenerator                                                       *)
(***************************************************************************)
Lookup3(exc, text, score) == [exc |-> exc, text |-> text, score |-> score]

\* get_cached_report lines 66-68: json.loads of the stored document and the
\* two .get calls.  json.loads raises on a string that is not JSON and .get
\* raises on a value that is not a dict; the except clause of line 73 turns
\* both into (None, None).
report_of_document(doc) ==
    IF doc.k # "object"
    THEN Lookup3(FALSE, NoneText, NoneScore)
    ELSE Lookup3(FALSE, IF doc.hasText THEN doc.text ELSE NoneText,
                 IF doc.hasScore THEN doc.score ELSE NoneScore)

\* get_cached_report lines 64-71 on the documents collection.get returned.
report_of_documents(docs) ==
    IF Len(docs) > 0 THEN report_of_document(docs[1])
    ELSE Lookup3(FALSE, NoneText, NoneScore)

\* A lookup whose exception is not caught.
report_of_lookup_unguarded(results) ==
    IF results.exc THEN Lookup3(TRUE, NoneText, NoneScore)
    ELSE report_of_documents(results.docs)

\* get_cached_report lines 53-75: an exception of collection.get is caught
\* and gives (None, None).
report_of_lookup(results) ==
    IF results.exc THEN Lookup3(FALSE, NoneText, NoneScore)
    ELSE report_of_documents(results.docs)

\* AIReportGenerator.get_cached_report; p is the position of the payload.
get_cached_report(coll, p, up) ==
    report_of_lookup(collection_get(coll, HashOf[p], up))

\* The write cache_report makes when the store accepts it.
report_write_append(coll, id, doc, meta) == store_append(coll, id, doc, meta)

report_write(coll, id, doc, meta) == store_upsert(coll, id, doc, meta)

\* cache_report: True and the new collection, or False when upsert raised.
cache_report(coll, p, text, score, up) ==
    IF up
    THEN [ok |-> TRUE,
          coll |-> report_write(coll, HashOf[p],
                                json_dumps_report(text, score), [score |-> score])]
    ELSE [ok |-> FALSE, coll |-> coll]

\* The test of generate_report line 124 on text alone.
cache_accepts_text_only(text, score) == TextTruthy(text)

\* generate_report line 124: if evaluation_text and score.
cache_accepts(text, score) == TextTruthy(text) /\ ScoreTruthy(score)

\* An except branch that also stores the fallback report.
after_generation_error_caching(coll, p, text, score, up) ==
    cache_report(coll, p, text, score, up).coll

\* generate_report lines 150-154: the except branch returns the basic report
\* and makes no store call.
after_generation_error(coll, p, text, score, up) == coll

\* What model.generate_content does: answers a text or raises.
GenOutcomes == { [ok |-> TRUE, text |-> t] : t \in ModelTexts }
               \cup { [ok |-> FALSE, text |-> NoneText] }

\* The outcome of one generate_report call: the path taken, the value
\* returned, the collection left behind and what cache_report returned.
Run(path, text, score, coll, stored) ==
    [path |-> path, ret |-> Result(text, score), coll |-> coll, stored |-> stored]

\* A path that ends by cache_report and return (lines 132-135, 143-148).
RunStored(path, text, score, cached) ==
    Run(path, text, score, cached.coll, cached.ok)

\* generate_report lines 124-154, after get_cached_report returned `cached`.
\* path: "hit", "unavailable" (model is None), "generated", "gen_error",
\* or "raised" when an exception leaves the call.
generate_report_after_lookup(coll, mdl, p, gen, putUp, cached) ==
    IF cached.exc
    THEN Run("raised", NoneText, NoneScore, coll, FALSE)
    ELSE IF cache_accepts(cached.text, cached.score)
    THEN Run("hit", cached.text, cached.score, coll, FALSE)
    ELSE IF mdl = "none"
    THEN RunStored("unavailable", BasicOf[p], ScoreOf[p],
                   cache_report(coll, p, BasicOf[p], ScoreOf[p], putUp))
    ELSE IF gen.ok
    THEN RunStored("generated", gen.text, ScoreOf[p],
                   cache_report(coll, p, gen.text, ScoreOf[p], putUp))
    ELSE Run("gen_error", BasicOf[p], ScoreOf[p],
             after_generation_error(coll, p, BasicOf[p], ScoreOf[p], putUp), FALSE)

\* One generate_report call as a function of the state it starts in.
generate_report_run(coll, mdl, p, gen, getUp, putUp) ==
    generate_report_after_lookup(coll, mdl, p, gen, putUp,
                                 get_cached_report(coll, p, getUp))

Invoked(path) == path \in {"generated", "gen_error"}

\* The paths on which cache_report, and so collection.upsert, is called.
MadeUpsert(path) == path \in {"unavailable", "generated"}

\* The state after a generate_report call with outcome `run`.
Returned(p, getUp, putUp, run) ==
    /\ collection' = run.coll
    /\ ret' = run.ret
    /\ raised' = (run.path = "raised")
    /\ last' = [p |-> p, path |-> run.path, getUp |-> getUp,
                putUp |-> putUp, stored |-> run.stored,
                score |-> ScoreOf[p], basic |-> BasicOf[p],
                prior |-> first_gen[HashOf[p]], before |-> collection]
    /\ gen_calls' = IF Invoked(run.path)
                    THEN [gen_calls EXCEPT ![HashOf[p]] = @ + 1] ELSE gen_calls
    /\ first_gen' = IF run.path = "generated" /\ first_gen[HashOf[p]] = NoResult
                    THEN [first_gen EXCEPT ![HashOf[p]] = run.ret] ELSE first_gen
    /\ store_failed' = (store_failed \/ ~getUp \/ (MadeUpsert(run.path) /\ ~putUp))
    /\ gen_failed' = (gen_failed \/ run.path = "gen_error")

generate_report(p, gen, getUp, putUp) ==
    /\ report_calls < MaxReportCalls
    /\ ~raised
    /\ Returned(p, getUp, putUp,
                generate_report_run(collection, model, p, gen, getUp, putUp))
    /\ report_calls' = report_calls + 1
    /\ UNCHANGED << model, malformed_writes, speech, writerVars, audioVars,
                    hashVars, validateVars, otherVars >>

NoCall == [p |-> 1, path |-> "none", getUp |-> TRUE, putUp |-> TRUE,
           stored |-> FALSE, score |-> NoneScore, basic |-> NoneText,
           prior |-> NoResult, before |-> <<>>]

GenerateReport ==
    \E p \in PayloadIds, gen \in GenOutcomes, getUp \in BOOLEAN, putUp \in BOOLEAN :
        generate_report(p, gen, getUp, putUp)

\* A report text that only a stored entry can hold.
StaleText == ModelText(9)

\* Stored documents that are not {"evaluation_text": ..., "score": ...}.
MalformedDocs ==
    { InvalidJsonDoc, NonObjectDoc,
      ObjectDoc(TRUE, StaleText, FALSE, NoneScore),
      ObjectDoc(FALSE, NoneText, TRUE, 99),
      ObjectDoc(FALSE, NoneText, FALSE, NoneScore) }

\* The persist directory is shared: an entry of the collection is replaced
\* by a document cache_report did not write.
store_malformed(p, doc) ==
    /\ malformed_writes < MaxMalformed
    /\ ~raised
    /\ collection' = store_upsert(collection, HashOf[p], doc, [score |-> NoneScore])
    /\ malformed_writes' = malformed_writes + 1
    /\ UNCHANGED << model, ret, raised, last, report_calls, gen_calls, first_gen,
                    store_failed, gen_failed, speech, writerVars, audioVars,
                    hashVars, validateVars, otherVars >>

StoreMalformed ==
    \E p \in PayloadIds, doc \in MalformedDocs : store_malformed(p, doc)

\* generate_report calls with the store answering.
GenerateReportStoreUp ==
    \E p \in PayloadIds, gen \in GenOutcomes : generate_report(p, gen, TRUE, TRUE)

\* AIReportGenerator.__init__ in a new process on the same persist
\* directory: the model initialises or not, the collection is the stored one.
init_generator(mdl) ==
    /\ model' = mdl
    /\ raised' = FALSE
    /\ UNCHANGED << collection, ret, last, report_calls, gen_calls, first_gen,
                    store_failed, gen_failed, malformed_writes, speech,
                    writerVars, audioVars, hashVars, validateVars, otherVars >>

InitGenerator == \E mdl \in {"ready", "none"} : init_generator(mdl)

(***************************************************************************)
(* Independent runs that share the persist directory.  A run inside        *)
(* cache_report or cache_analysis has built its document and then makes    *)
(* one collection.upsert call, which the store applies as a whole.         *)
(***************************************************************************)
Runs == {1, 2}

NoDocument == [k |-> "absent", hasText |-> FALSE, text |-> NoneText,
               hasScore |-> FALSE, score |-> NoneScore]

Write(op, state, p, text, score, path) ==
    [op |-> op, state |-> state, p |-> p, text |-> text, score |-> score,
     path |-> path]

NoWrite == Write("none", "none", 1, NoneText, NoneScore, 1)

\* cache_report lines 79-91: the id and the document are built.
begin_cache_report(r, p, text) ==
    /\ pc[r] = "idle"
    /\ store_writes < MaxStoreWrites
    /\ pc' = [pc EXCEPT ![r] = "upsert"]
    /\ pending' = [pending EXCEPT ![r] = Write("report", "begun", p, text, ScoreOf[p], 1)]
    /\ store_writes' = store_writes + 1
    /\ UNCHANGED << collection, speech, report_last, speech_last, reportVars,
                    audioVars, hashVars, validateVars, otherVars >>

\* cache_analysis lines 97-112: the id and the document are built.
begin_cache_analysis(r, path) ==
    /\ pc[r] = "idle"
    /\ store_writes < MaxStoreWrites
    /\ pc' = [pc EXCEPT ![r] = "upsert"]
    /\ pending' = [pending EXCEPT
                      ![r] = Write("analysis", "begun", 1, NoneText, NoneScore, path)]
    /\ store_writes' = store_writes + 1
    /\ UNCHANGED << collection, speech, report_last, speech_last, reportVars,
                    audioVars, hashVars, validateVars, otherVars >>

Finished(w, up) == [w EXCEPT !.state = IF up THEN "stored" ELSE "failed"]

\* cache_report lines 94-109: the upsert is applied, or raises and is caught.
finish_cache_report(r, up) ==
    /\ pc[r] = "upsert"
    /\ pending[r].op = "report"
    /\ collection' = cache_report(collection, pending[r].p, pending[r].text,
                                  pending[r].score, up).coll
    /\ report_last' =
          IF up
          THEN [report_last EXCEPT ![HashOf[pending[r].p]] =
                                      json_dumps_report(pending[r].text, pending[r].score)]
          ELSE report_last
    /\ pc' = [pc EXCEPT ![r] = "idle"]
    /\ pending' = [pending EXCEPT ![r] = Finished(@, up)]
    /\ UNCHANGED << speech, speech_last, store_writes, reportVars, audioVars,
                    hashVars, validateVars, otherVars >>

\* cache_analysis lines 115-130: the upsert is applied, or raises and is caught.
finish_cache_analysis(r, up) ==
    /\ pc[r] = "upsert"
    /\ pending[r].op = "analysis"
    /\ speech' = cache_analysis(speech, Analysis(pending[r].path),
                                pending[r].path, up).coll
    /\ speech_last' =
          IF up
          THEN [speech_last EXCEPT ![speech_generate_hash(pending[r].path)] =
                                      json_dumps_analysis(Analysis(pending[r].path))]
          ELSE speech_last
    /\ pc' = [pc EXCEPT ![r] = "idle"]
    /\ pending' = [pending EXCEPT ![r] = Finished(@, up)]
    /\ UNCHANGED << collection, report_last, store_writes, reportVars, audioVars,
                    hashVars, validateVars, otherVars >>

BeginCacheReport ==
    \E r \in Runs, p \in PayloadIds, text \in ModelTexts : begin_cache_report(r, p, text)

BeginCacheAnalysis ==
    \E r \in Runs, path \in AudioPaths : begin_cache_analysis(r, path)

FinishCacheReport == \E r \in Runs, up \in BOOLEAN : finish_cache_report(r, up)

FinishCacheAnalysis == \E r \in Runs, up \in BOOLEAN : finish_cache_analysis(r, up)

(***************************************************************************)
(* SpeechAnalysisCache calls of one process.                               *)
(***************************************************************************)
\* The first 1 MiB of a file, the bytes the cache is meant to key on.
FirstBytes(path) ==
    [i \in 1..(IF Len(AudioFileSeq[path]) < ReadLimit
               THEN Len(AudioFileSeq[path]) ELSE ReadLimit) |-> AudioFileSeq[path][i]]

AudioPrefixes == { FirstBytes(path) : path \in AudioPaths }

AudioCall(op, path, up, ok) == [op |-> op, path |-> path, up |-> up, ok |-> ok]

cache_analysis_call(path, up) ==
    /\ audio_ops < MaxAudioOps
    /\ speech' = cache_analysis(speech, Analysis(path), path, up).coll
    /\ audio_last' = AudioCall("cache", path, up,
                               cache_analysis(speech, Analysis(path), path, up).ok)
    /\ cached_for' = IF up THEN [cached_for EXCEPT ![FirstBytes(path)] = Analysis(path)]
                     ELSE cached_for
    /\ audio_ops' = audio_ops + 1
    /\ UNCHANGED << audio_ret, collection, reportVars, writerVars, hashVars,
                    validateVars, otherVars >>

get_cached_analysis_call(path, up) ==
    /\ audio_ops < MaxAudioOps
    /\ audio_ret' = get_cached_analysis(speech, path, up)
    /\ audio_last' = AudioCall("get", path, up, TRUE)
    /\ audio_ops' = audio_ops + 1
    /\ UNCHANGED << speech, cached_for, collection, reportVars, writerVars,
                    hashVars, validateVars, otherVars >>

CacheAnalysis == \E path \in AudioPaths, up \in BOOLEAN : cache_analysis_call(path, up)

GetCachedAnalysis ==
    \E path \in AudioPaths, up \in BOOLEAN : get_cached_analysis_call(path, up)

(***************************************************************************)
(* AIReportGenerator.generate_hash called on one record after another.     *)
(***************************************************************************)
NoRecord == 0

NoDigest == << "md5", 0 >>

generate_hash_call(r) ==
    /\ hashed' = << hashed[2], r >>
    /\ digests' = << digests[2], DigestOf[r] >>
    /\ UNCHANGED << collection, speech, reportVars, writerVars, audioVars,
                    validateVars, otherVars >>

GenerateHash == \E r \in RecordIds : generate_hash_call(r)

(***************************************************************************)
(* ContentValidator.validate_video.  The three scorers are its inputs:     *)
(* each returns passed, a score rounded to hundredths and details.         *)
(***************************************************************************)
Check(passed, score, details) ==
    [passed |-> passed, score |-> score, details |-> details]

\* What check_for_human_face can return: passed is overall_score >= 70 and
\* score is the overall score rounded.
FaceChecks ==
    { Check(FALSE, 0, "No faces detected"),
      Check(FALSE, 3000, "Inconsistent face detection"),
      Check(FALSE, 3999, "Inconsistent face detection"),
      Check(FALSE, 4000, "Inconsistent face detection"),
      Check(FALSE, 6999, "Erratic face movement (unstable video)"),
      Check(FALSE, 7000, "Erratic face movement (unstable video)"),
      Check(TRUE, 7000, "Face detected"),
      Check(TRUE, 8000, "Face detected"),
      Check(TRUE, 8001, "Face detected"),
      Check(TRUE, 10000, "Face detected") }

\* What check_for_speaking_person can return: passed is overall_score >= 60.
SpeakingChecks ==
    { Check(FALSE, 0, "Unable to detect speaking person"),
      Check(FALSE, 3999, "No mouth movement detected"),
      Check(FALSE, 4000, "Limited speaking detected"),
      Check(TRUE, 6000, "Speaking detected"),
      Check(TRUE, 7000, "Speaking detected"),
      Check(TRUE, 8000, "Speaking detected"),
      Check(TRUE, 8002, "Speaking detected"),
      Check(TRUE, 10000, "Speaking detected") }

\* What check_transcript_content can return: passed is relevance >= 50.
TranscriptChecks ==
    { Check(FALSE, 0, "No transcript available"),
      Check(FALSE, 0, "No interview-related keywords detected"),
      Check(FALSE, 1000, "Detected non-interview keywords"),
      Check(FALSE, 2999, "Detected interview-related keywords"),
      Check(FALSE, 3000, "Detected interview-related keywords"),
      Check(TRUE, 7000, "Detected interview-related keywords"),
      Check(TRUE, 10000, "Detected interview-related keywords") }

\* validate_video line 147: the transcript check when none was run.
NoTranscriptCheck == Check(FALSE, 0, "No transcript available")

(***************************************************************************)
(* The scorers.  A video is what cv2 reports about the file and the frames *)
(* cap.read() delivers; a frame carries what the detectors find in it: a   *)
(* face with the area of its box (pixels) and its centre (thousandths of   *)
(* the frame), and the mouth opening (thousandths, -1 without landmarks).  *)
(* fps is in tenths.  A score before rounding is a fraction: a number of   *)
(* 1e-4 points over `parts`, the count its rate divides by, so rates are   *)
(* exact; the two consistencies are cut off at a hundredth of a point,     *)
(* which moves a score by less than 0.004 and not at all where their       *)
(* quotients are exact.                                                    *)
(***************************************************************************)
Frame(face, area, x, y, mouth) ==
    [face |-> face, area |-> area, x |-> x, y |-> y, mouth |-> mouth]

Video(total_frames, fps, frames) ==
    [total_frames |-> total_frames, fps |-> fps, frames |-> frames]

Max(a, b) == IF a >= b THEN a ELSE b

Min(a, b) == IF a <= b THEN a ELSE b

Abs(a) == IF a >= 0 THEN a ELSE 0 - a

\* x ** 0.5 on a whole number under 4 * 10^8, cut off.
Sqrt(n) == CHOOSE r \in 0..Min(n, 20000) : r * r <= n /\ (r + 1) * (r + 1) > n

RECURSIVE SumTo(_, _)
\* sum(f[1..i])
SumTo(f, i) == IF i = 0 THEN 0 ELSE f[i] + SumTo(f, i - 1)

Sum(f) == SumTo(f, Len(f))

\* A consistency left as computed.
Unclamped(value) == value

\* max(0, min(100, value)) in hundredths
Clamp(value) == Max(0, Min(10000, value))

\* round(value / parts, 2): value / parts in 1e-4, result in hundredths.  A
\* value half-way goes the way the floats of the build happen to fall.
rounded4(value, parts, up) ==
    IF 2 * (value % (100 * parts)) < 100 * parts THEN value \div (100 * parts)
    ELSE IF 2 * (value % (100 * parts)) > 100 * parts THEN value \div (100 * parts) + 1
    ELSE IF up THEN value \div (100 * parts) + 1 ELSE value \div (100 * parts)

\* The `while cap.isOpened() and frames_sampled < 15` loops: the frames at
\* indexes 0, interval, 2 * interval, ... that cap.read() delivers, at most
\* limit of them.
Sampled(frames, interval, limit) ==
    [j \in 1..Min(limit, (Len(frames) + interval - 1) \div interval) |->
        frames[1 + (j - 1) * interval]]

IsFace(frame) == frame.face

\* check_for_human_face lines 204, 209-210
face_invalid(video) ==
    video.total_frames <= 0 \/ video.fps <= 0 \/ video.total_frames * 10 <= video.fps

face_interval(video) == IF video.fps > 0 THEN Max(1, (video.fps * 2) \div 10) ELSE 30

\* rate < percent, for a rate of count / total * 100
RateBelow(count, total, percent) == 100 * count < percent * total

\* lines 261-282: the two consistencies, in hundredths.
SizeSpread(sizes, total) ==
    Sum([i \in 1..Len(sizes) |-> Abs(Len(sizes) * sizes[i] - total)])

face_size_consistency(sizes) ==
    IF Len(sizes) > 1 /\ Sum(sizes) > 0
    THEN Clamp(10000 - (SizeSpread(sizes, Sum(sizes)) * 10000)
                           \div (Len(sizes) * Sum(sizes)))
    ELSE 10000

PositionSpread(xs, ys, sx, sy) ==
    Sum([i \in 1..Len(xs) |->
            Sqrt((Len(xs) * xs[i] - sx) * (Len(xs) * xs[i] - sx)
                 + (Len(xs) * ys[i] - sy) * (Len(xs) * ys[i] - sy))])

position_consistency(xs, ys) ==
    IF Len(xs) > 1
    THEN Clamp(10000 - (PositionSpread(xs, ys, Sum(xs), Sum(ys)) * 10)
                           \div (Len(xs) * Len(xs)))
    ELSE 10000

\* lines 259, 285-289: face_detection_rate * 0.7 + ..., times frames_sampled
face_overall_score(face_frames, frames_sampled, size, position) ==
    700000 * face_frames + frames_sampled * (15 * size + 15 * position)

\* result["passed"] = overall_score >= threshold: on the score before round()
passed_on_overall(overall, parts, threshold) == overall >= threshold * 100 * parts

\* lines 294-303
face_details(face_frames, frames_sampled, size, position) ==
    IF face_frames = 0 THEN "No faces detected"
    ELSE IF RateBelow(face_frames, frames_sampled, 50) THEN "Inconsistent face detection"
    ELSE IF size < 5000 THEN "Highly variable face size (possible multiple subjects)"
    ELSE IF position < 5000 THEN "Erratic face movement (unstable video)"
    ELSE "Face detected in N% of frames"

\* lines 291-292, 404-405, 479-480
Scored(overall, parts, threshold, details, up) ==
    Check(passed_on_overall(overall, parts, threshold),
          rounded4(overall, parts, up), details)

face_scored(face_frames, frames_sampled, size, position, up) ==
    Scored(face_overall_score(face_frames, frames_sampled, size, position),
           frames_sampled, 7000,
           face_details(face_frames, frames_sampled, size, position), up)

face_measured(samples, faces, up) ==
    face_scored(Len(faces), Len(samples),
                face_size_consistency([i \in 1..Len(faces) |-> faces[i].area]),
                position_consistency([i \in 1..Len(faces) |-> faces[i].x],
                                     [i \in 1..Len(faces) |-> faces[i].y]),
                up)

\* What a scorer run leaves: an exception, or the result it returns, and the
\* number of frames handed to the detector.
Outcome(exc, check, detections) ==
    [exc |-> exc, check |-> check, detections |-> detections]

\* lines 192-196
face_default == Check(FALSE, 0, "No faces detected")

\* lines 255-256: no frame was sampled.
face_no_samples == face_default

\* The body of the try of check_for_human_face.  fault: "none", "capture"
\* (cv2 raises when the file is opened or asked for its frame count) or
\* "detector" (face_detection.process raises on the first frame it gets).
face_body(video, fault, samples, up) ==
    IF fault = "capture" THEN Outcome(TRUE, face_default, 0)
    ELSE IF face_invalid(video)
    THEN Outcome(FALSE, Check(FALSE, 0, "Video too short or invalid"), 0)
    ELSE IF Len(samples) = 0 THEN Outcome(FALSE, face_no_samples, 0)
    ELSE IF fault = "detector" THEN Outcome(TRUE, face_default, 1)
    ELSE Outcome(FALSE, face_measured(samples, SelectSeq(samples, IsFace), up),
                 Len(samples))

\* A scorer whose exceptions leave it.
uncaught(run, details) == run

\* lines 307-309, 416-418, 495-497: except Exception gives the default
\* result with the error as details.
caught(run, details) ==
    IF run.exc THEN Outcome(FALSE, Check(FALSE, 0, details), run.detections) ELSE run

check_for_human_face(video, fault, up) ==
    caught(face_body(video, fault,
                     Sampled(video.frames, face_interval(video), 15), up),
           "Error during face detection")

HasMouth(frame) == frame.mouth >= 0

\* check_for_speaking_person lines 326, 331-332
speech_invalid(video) == video.total_frames <= 0

speech_interval(video) == IF video.fps > 0 THEN Max(1, video.fps \div 10) ELSE 30

\* lines 367-378: the height changes between one frame with landmarks and
\* the next.
mouth_height_changes(heights) ==
    [i \in 1..(Len(heights) - 1) |-> Abs(heights[i + 1] - heights[i])]

\* line 375: height_change > 0.01
IsMotion(change) == change > 10

ChangeSpread(changes, total) ==
    Sum([i \in 1..Len(changes) |->
            (Len(changes) * changes[i] - total) * (Len(changes) * changes[i] - total)])

\* lines 392-399, in hundredths: 100 * (1 - min(1.0, variance / mean ** 2))
movement_consistency(changes) ==
    IF Len(changes) > 0 /\ Sum(changes) > 0
    THEN 10000 - Min(10000, (ChangeSpread(changes, Sum(changes)) * 10000)
                                \div (Len(changes) * Sum(changes) * Sum(changes)))
    ELSE 0

\* lines 388-389, 402: speaking_rate * 0.8 + movement_consistency * 0.2,
\* times speaking_frames
speech_overall_score(mouth_motion_frames, speaking_frames, consistency) ==
    800000 * mouth_motion_frames + speaking_frames * 20 * consistency

\* lines 407-412
speech_details(mouth_motion_frames, speaking_frames) ==
    IF mouth_motion_frames = 0 THEN "No mouth movement detected"
    ELSE IF RateBelow(mouth_motion_frames, speaking_frames, 30)
    THEN "Limited speaking detected"
    ELSE "Speaking detected in N% of samples"

speech_scored(mouth_motion_frames, speaking_frames, consistency, up) ==
    Scored(speech_overall_score(mouth_motion_frames, speaking_frames, consistency),
           speaking_frames, 6000,
           speech_details(mouth_motion_frames, speaking_frames), up)

speech_measured(frames_sampled, changes, up) ==
    speech_scored(Len(SelectSeq(changes, IsMotion)), frames_sampled - 1,
                  movement_consistency(changes), up)

MouthHeights(frames) == [i \in 1..Len(frames) |-> frames[i].mouth]

\* lines 315-319
speech_default == Check(FALSE, 0, "Unable to detect speaking person")

\* The body of the try of check_for_speaking_person; fault as for the face
\* scorer, "detector" being face_mesh.process.
speech_body(video, fault, samples, up) ==
    IF fault = "capture" THEN Outcome(TRUE, speech_default, 0)
    ELSE IF speech_invalid(video)
    THEN Outcome(FALSE, Check(FALSE, 0, "Invalid video file"), 0)
    ELSE IF Len(samples) > 0 /\ fault = "detector" THEN Outcome(TRUE, speech_default, 1)
    ELSE IF Len(samples) <= 1 THEN Outcome(FALSE, speech_default, Len(samples))
    ELSE Outcome(FALSE,
                 speech_measured(Len(samples),
                     mouth_height_changes(MouthHeights(SelectSeq(samples, HasMouth))),
                     up),
                 Len(samples))

\* The speaking check without its try block.
check_for_speaking_person_unguarded(video, fault, up) ==
    speech_body(video, fault, Sampled(video.frames, speech_interval(video), 15), up)

check_for_speaking_person(video, fault, up) ==
    caught(speech_body(video, fault,
                       Sampled(video.frames, speech_interval(video), 15), up),
           "Error during speaking detection")

(***************************************************************************)
(* The transcript scorer and the transcription service it polls.  A        *)
(* transcript is what the keyword and pattern searches find in it.         *)
(***************************************************************************)
Transcript(kind, length, interview, non_interview, intro, background, skills) ==
    [kind |-> kind, length |-> length, interview |-> interview,
     non_interview |-> non_interview, intro |-> intro,
     background |-> background, skills |-> skills]

\* None, and a 'text' that is not a string.
NoTranscript == Transcript("none", 0, 0, 0, FALSE, FALSE, FALSE)

NotAString == Transcript("number", 0, 0, 0, FALSE, FALSE, FALSE)

\* How the service behaves for one sample: whether ffmpeg left the sample
\* file, the status of the upload and of the transcription request, what the
\* polls answer (the last answer repeats for ever) and the text of the job.
\* A poll answers "completed", "queued", "processing", "error", "http500"
\* or "badjson" (a 200 without a status).
Service(ffmpeg, sample, upload, request, polls, text) ==
    [ffmpeg |-> ffmpeg, sample |-> sample, upload |-> upload,
     request |-> request, polls |-> polls, text |-> text]

PollAt(polls, attempt) == polls[Min(attempt, Len(polls))]

\* lines 96-98: a poll that ends the loop, by a return or by an exception.
Decisive(answer) == answer \in {"completed", "badjson"}

\* A loop that polls until the job is completed.
poll_forever(polls, limit) == PollAt(polls, Len(polls))

\* lines 89-113: `while attempts < 5`; the answer that ends the loop, or
\* "exhausted".
poll_attempts(polls, limit) ==
    IF \E a \in 1..limit : Decisive(PollAt(polls, a))
    THEN PollAt(polls, CHOOSE a \in 1..limit :
                           /\ Decisive(PollAt(polls, a))
                           /\ \A b \in 1..(a - 1) : ~Decisive(PollAt(polls, b)))
    ELSE "exhausted"

\* get_transcript_sample: the text, or None on every other path.
get_transcript_sample(service) ==
    IF ~service.ffmpeg THEN NoTranscript
    ELSE IF ~service.sample THEN NoTranscript
    ELSE IF service.upload # 200 THEN NoTranscript
    ELSE IF service.request # 200 THEN NoTranscript
    ELSE IF poll_attempts(service.polls, 5) = "completed" THEN service.text
    ELSE NoTranscript

(***************************************************************************)
(* The text of a transcript, letter by letter: a text is the sequence of    *)
(* its characters, and the keyword and pattern searches of                 *)
(* check_transcript_content are made on it as the code makes them.         *)
(***************************************************************************)
\* __init__ lines 21-27 (position is listed twice)
interview_keywords ==
    << << "e", "x", "p", "e", "r", "i", "e", "n", "c", "e" >>,
       << "s", "k", "i", "l", "l" >>,
       << "e", "d", "u", "c", "a", "t", "i", "o", "n" >>,
       << "j", "o", "b" >>,
       << "p", "o", "s", "i", "t", "i", "o", "n" >>,
       << "w", "o", "r", "k" >>,
       << "p", "r", "o", "j", "e", "c", "t" >>,
       << "t", "e", "a", "m" >>,
       << "b", "a", "c", "k", "g", "r", "o", "u", "n", "d" >>,
       << "r", "e", "s", "p", "o", "n", "s", "i", "b", "i", "l", "i", "t",
             "y" >>,
       << "c", "a", "r", "e", "e", "r" >>,
       << "q", "u", "a", "l", "i", "f", "i", "c", "a", "t", "i", "o",
             "n" >>,
       << "c", "h", "a", "l", "l", "e", "n", "g", "e" >>,
       << "g", "o", "a", "l" >>,
       << "a", "c", "h", "i", "e", "v", "e", "m", "e", "n", "t" >>,
       << "d", "e", "g", "r", "e", "e" >>,
       << "p", "r", "o", "f", "e", "s", "s", "i", "o", "n", "a", "l" >>,
       << "i", "n", "t", "e", "r", "v", "i", "e", "w" >>,
       << "t", "h", "a", "n", "k", " ", "y", "o", "u" >>,
       << "r", "e", "s", "u", "m", "e" >>,
       << "c", "v" >>,
       << "o", "p", "p", "o", "r", "t", "u", "n", "i", "t", "y" >>,
       << "p", "o", "s", "i", "t", "i", "o", "n" >>,
       << "r", "o", "l", "e" >>,
       << "c", "a", "n", "d", "i", "d", "a", "t", "e" >>,
       << "h", "i", "r", "e" >> >>

\* __init__ lines 29-35
non_interview_keywords ==
    << << "c", "a", "t" >>,
       << "d", "o", "g" >>,
       << "p", "e", "t" >>,
       << "a", "n", "i", "m", "a", "l" >>,
       << "g", "a", "m", "e" >>,
       << "p", "l", "a", "y" >>,
       << "m", "o", "v", "i", "e" >>,
       << "t", "r", "a", "i", "l", "e", "r" >>,
       << "f", "u", "n", "n", "y" >>,
       << "c", "o", "o", "k", "i", "n", "g" >>,
       << "r", "e", "c", "i", "p", "e" >>,
       << "m", "u", "s", "i", "c" >>,
       << "s", "o", "n", "g" >>,
       << "d", "a", "n", "c", "e" >>,
       << "t", "r", "a", "v", "e", "l" >>,
       << "v", "a", "c", "a", "t", "i", "o", "n" >>,
       << "m", "a", "c", "h", "i", "n", "e" >>,
       << "e", "n", "g", "i", "n", "e" >>,
       << "v", "e", "h", "i", "c", "l", "e" >>,
       << "t", "u", "t", "o", "r", "i", "a", "l" >>,
       << "g", "a", "m", "e", "p", "l", "a", "y" >>,
       << "u", "n", "b", "o", "x", "i", "n", "g" >>,
       << "r", "e", "v", "i", "e", "w" >>,
       << "p", "r", "a", "n", "k" >>,
       << "m", "a", "g", "i", "c" >>,
       << "t", "r", "i", "c", "k" >>,
       << "v", "l", "o", "g" >> >>

\* str.lower() on the letters the texts use.
UpperCase == << "A", "B", "C", "D", "E", "F", "G", "H", "I", "J", "K", "L", "M",
               "N", "O", "P", "Q", "R", "S", "T", "U", "V", "W", "X", "Y", "Z" >>

LowerCase == << "a", "b", "c", "d", "e", "f", "g", "h", "i", "j", "k", "l", "m",
               "n", "o", "p", "q", "r", "s", "t", "u", "v", "w", "x", "y", "z" >>

lower_char(c) ==
    IF \E k \in 1..26 : UpperCase[k] = c
    THEN LowerCase[CHOOSE k \in 1..26 : UpperCase[k] = c]
    ELSE c

\* line 437: transcript.lower()
lower(text) == [i \in 1..Len(text) |-> lower_char(text[i])]

\* `word` occurs in `text` at position i.
OccursAt(word, text, i) ==
    /\ i + Len(word) - 1 <= Len(text)
    /\ \A j \in 1..Len(word) : text[i + j - 1] = word[j]

\* `word in text`, and re.search of an alternation of plain words.
Contains(text, word) == \E i \in 1..Len(text) : OccursAt(word, text, i)

ContainsAny(text, words) == \E k \in 1..Len(words) : Contains(text, words[k])

\* lines 440-449: sum(1 for keyword in keywords if keyword in transcript_lower)
keyword_count(keywords, text) ==
    Cardinality({ k \in 1..Len(keywords) : Contains(text, keywords[k]) })

\* \w of the pattern, on the characters the texts use.
WordChar(c) == \E k \in 1..26 : LowerCase[k] = c

\* line 452: (my name is|i am|i'm)\s+\w+ : the phrase, one or more blanks, a
\* word character.
intro_phrases ==
    << << "m", "y", " ", "n", "a", "m", "e", " ", "i", "s" >>,
       << "i", " ", "a", "m" >>,
       << "i", "'", "m" >> >>

FollowedByWord(text, i) ==
    \E j \in (i + 1)..Len(text) :
        /\ WordChar(text[j])
        /\ \A b \in i..(j - 1) : text[b] = " "

has_introduction(text) ==
    \E k \in 1..Len(intro_phrases), i \in 1..Len(text) :
        /\ OccursAt(intro_phrases[k], text, i)
        /\ FollowedByWord(text, i + Len(intro_phrases[k]))

\* line 453
background_words ==
    << << "e", "x", "p", "e", "r", "i", "e", "n", "c", "e" >>,
       << "b", "a", "c", "k", "g", "r", "o", "u", "n", "d" >>,
       << "e", "d", "u", "c", "a", "t", "i", "o", "n" >>,
       << "d", "e", "g", "r", "e", "e" >>,
       << "g", "r", "a", "d", "u", "a", "t", "e", "d" >> >>

has_background(text) == ContainsAny(text, background_words)

\* line 454
skills_words ==
    << << "s", "k", "i", "l", "l" >>,
       << "a", "b", "i", "l", "i", "t", "y" >>,
       << "p", "r", "o", "f", "i", "c", "i", "e", "n", "t" >>,
       << "e", "x", "p", "e", "r", "t" >>,
       << "k", "n", "o", "w", "l", "e", "d", "g", "e" >> >>

has_skills(text) == ContainsAny(text, skills_words)

\* What the searches of lines 437-454 find in a text.
found_in(text, lowered) ==
    Transcript("text", Len(text),
               keyword_count(interview_keywords, lowered),
               keyword_count(non_interview_keywords, lowered),
               has_introduction(lowered), has_background(lowered),
               has_skills(lowered))

transcript_found(text) == found_in(text, lower(text))

\* Three off-domain keywords and the k-th interview keyword.
OffDomainText ==
    << "f", "u", "n", "n", "y", " ", "r", "e", "c", "i", "p", "e", " ", "v",
       "l", "o", "g", " " >>

WithKeyword(k) == OffDomainText \o interview_keywords[k]

\* More texts: an introduction with a background and a skill among off-domain
\* words; capitals; one word that holds three off-domain keywords and an
\* interview keyword; an introduction alone; "i am" at the very end; nine
\* characters.
OtherTextSeq ==
    << << "m", "y", " ", "n", "a", "m", "e", " ", "i", "s", " ", "s", "a",
             "m", " ", "i", " ", "h", "a", "v", "e", " ", "a", " ", "d", "e",
             "g", "r", "e", "e", " ", "a", "n", "d", " ", "k", "n", "o", "w",
             "l", "e", "d", "g", "e", " ", "o", "f", " ", "c", "o", "o", "k",
             "i", "n", "g", " ", "m", "u", "s", "i", "c", " ", "a", "n", "d",
             " ", "d", "a", "n", "c", "e" >>,
       << "M", "y", " ", "N", "a", "m", "e", " ", "I", "s", " ", "S", "a",
             "m", " ", "a", "n", "d", " ", "I", " ", "d", "i", "d", " ", "a",
             " ", "P", "R", "O", "J", "E", "C", "T", " ", "w", "i", "t", "h",
             " ", "m", "y", " ", "T", "E", "A", "M" >>,
       << "g", "a", "m", "e", "p", "l", "a", "y", " ", "a", "n", "d", " ",
             "m", "y", " ", "r", "e", "s", "u", "m", "e" >>,
       << "i", "'", "m", " ", " ", "s", "a", "m", " ", "a", "n", "d", " ",
             "t", "h", "i", "s", " ", "i", "s", " ", "m", "y", " ", "d", "o",
             "g" >>,
       << "t", "h", "a", "t", " ", "i", "s", " ", "w", "h", "o", " ", "i",
             " ", "a", "m" >>,
       << "f", "u", "n", "n", "y", " ", "j", "o", "b" >>,
       << "t", "h", "a", "n", "k", " ", "y", "o", "u", " ", "f", "o", "r",
             " ", "t", "h", "e", " ", "o", "p", "p", "o", "r", "t", "u", "n",
             "i", "t", "y", " ", "t", "o", " ", "i", "n", "t", "e", "r", "v",
             "i", "e", "w", " ", "f", "o", "r", " ", "t", "h", "i", "s", " ",
             "r", "o", "l", "e", " ", "i", " ", "a", "m", " ", "a", " ", "c",
             "a", "n", "d", "i", "d", "a", "t", "e", " ", "w", "i", "t", "h",
             " ", "a", " ", "c", "a", "r", "e", "e", "r", " ", "g", "o", "a",
             "l" >> >>

TextSeq == [k \in 1..Len(interview_keywords) |-> WithKeyword(k)] \o OtherTextSeq

FoundSeq == [i \in 1..Len(TextSeq) |-> transcript_found(TextSeq[i])]


\* check_transcript_content lines 457-477, in whole points
keyword_score(interview) == IF interview > 0 THEN Min(60, interview * 10) ELSE 0

\* A penalty of 15 whatever the number of off-domain keywords.
penalised_flat(score, non_interview) ==
    IF non_interview > 0 THEN score - Min(score, 15) ELSE score

penalised(score, non_interview) ==
    IF non_interview > 0 THEN score - Min(score, non_interview * 15) ELSE score

\* The penalty taken off after the bonuses.
relevance_penalty_last(t) ==
    Max(0, Min(100, penalised(keyword_score(t.interview)
                                  + (IF t.intro THEN 15 ELSE 0)
                                  + (IF t.background THEN 15 ELSE 0)
                                  + (IF t.skills THEN 10 ELSE 0),
                              t.non_interview)))

relevance_score(t) ==
    Max(0, Min(100, penalised(keyword_score(t.interview), t.non_interview)
                    + (IF t.intro THEN 15 ELSE 0)
                    + (IF t.background THEN 15 ELSE 0)
                    + (IF t.skills THEN 10 ELSE 0)))

\* lines 482-487
transcript_details(t) ==
    IF t.non_interview > t.interview THEN "Detected N non-interview keywords"
    ELSE IF t.interview = 0 THEN "No interview-related keywords detected"
    ELSE "Detected N interview-related keywords"

\* lines 424-428
transcript_default == Check(FALSE, 0, "No transcript available")

\* The body without the test of the length.
transcript_body_unchecked(t, up) ==
    IF t.kind = "number" THEN Outcome(TRUE, transcript_default, 0)
    ELSE IF t.kind = "none" THEN Outcome(FALSE, transcript_default, 0)
    ELSE Outcome(FALSE,
                 Scored(relevance_score(t) * 10000, 1, 5000, transcript_details(t), up),
                 1)

\* The body of the try of check_transcript_content, given the transcript;
\* the last field tells whether the keyword and pattern searches were made.
transcript_body(t, up) ==
    IF t.kind = "number" THEN Outcome(TRUE, transcript_default, 0)
    ELSE IF t.kind = "none" \/ t.length < 10 THEN Outcome(FALSE, transcript_default, 0)
    ELSE Outcome(FALSE,
                 Scored(relevance_score(t) * 10000, 1, 5000, transcript_details(t), up),
                 1)

check_transcript_content(service, up) ==
    caught(transcript_body(get_transcript_sample(service), up),
           "Error analyzing transcript")

(***************************************************************************)
(* The videos, transcripts and service behaviours the scorers are run on.  *)
(***************************************************************************)
NoFace == Frame(FALSE, 0, 0, 0, -1)

\* n frames of one steady face whose mouth opens and closes.
Talking(n) == [i \in 1..n |-> Frame(TRUE, 4000, 500, 500, IF i % 2 = 0 THEN 20 ELSE 0)]

Blank(n) == [i \in 1..n |-> NoFace]

VideoSeq ==
    << Video(0, 0, <<>>),
       Video(-1, 300, <<>>),
       Video(1, 20, Talking(1)),
       Video(10, 5, <<>>),
       Video(5, 5, << Frame(TRUE, 3199, 500, 500, 10), Frame(TRUE, 4000, 500, 500, 42),
                      Frame(TRUE, 4801, 500, 500, 9), NoFace, NoFace >>),
       Video(7, 5, Talking(4) \o Blank(3)),
       Video(40, 10, Talking(40)),
       Video(6, 5, Talking(6)),
       Video(15, 5, << Frame(TRUE, 4000, 0, 500, 0), Frame(TRUE, 4000, 6000, 500, 30) >>
                    \o Blank(13)),
       Video(6, 5, Blank(6)),
       Video(4, 5, << Frame(TRUE, 0, 500, 500, 0), Frame(TRUE, 0, 500, 500, 0),
                      Frame(TRUE, 9000, 500, 500, 0), Frame(TRUE, 0, 500, 500, 30) >>),
       Video(31, 0, Talking(31)),
       Video(2, 5, Talking(2)),
       Video(3, 20, Talking(3)),
       Video(4, 5, << Frame(TRUE, 4000, 400, 500, 0), Frame(TRUE, 4200, 500, 500, 30),
                      Frame(TRUE, 3800, 600, 500, 5), NoFace >>),
       Video(5, 5, << Frame(TRUE, 1601, 500, 500, 0), Frame(TRUE, 2000, 500, 500, 0),
                      Frame(TRUE, 2399, 500, 500, 0), NoFace, NoFace >>) >>

VideoIds == 1..Len(VideoSeq)

Faults == {"none", "capture", "detector"}

TranscriptSeq ==
    << Transcript("text", 200, 5, 0, TRUE, TRUE, TRUE),
       Transcript("text", 200, 0, 3, FALSE, FALSE, FALSE),
       Transcript("text", 200, 2, 1, FALSE, TRUE, FALSE),
       Transcript("text", 200, 2, 0, TRUE, TRUE, FALSE),
       Transcript("text", 200, 3, 0, FALSE, TRUE, FALSE),
       Transcript("text", 200, 26, 0, TRUE, TRUE, TRUE),
       Transcript("text", 200, 0, 0, FALSE, FALSE, FALSE),
       Transcript("text", 5, 1, 0, FALSE, FALSE, FALSE),
       Transcript("text", 0, 0, 0, FALSE, FALSE, FALSE),
       NotAString >>

Answering(polls, text) == Service(TRUE, TRUE, 200, 200, polls, text)

PollSeq ==
    << << "completed" >>,
       << "queued", "processing", "completed" >>,
       << "processing", "processing", "processing", "processing", "completed" >>,
       << "processing", "processing", "processing", "processing", "processing",
          "completed" >>,
       << "queued", "processing" >>,
       << "error" >>,
       << "http500" >>,
       << "http500", "completed" >>,
       << "processing", "badjson" >>,
       << "queued", "error", "completed" >> >>

ServiceSeq ==
    [i \in 1..Len(TranscriptSeq) |-> Answering(PollSeq[1], TranscriptSeq[i])]
    \o [i \in 1..(Len(PollSeq) - 1) |-> Answering(PollSeq[i + 1], TranscriptSeq[1])]
    \o << Service(FALSE, FALSE, 200, 200, PollSeq[1], TranscriptSeq[1]),
          Service(TRUE, FALSE, 200, 200, PollSeq[1], TranscriptSeq[1]),
          Service(TRUE, TRUE, 500, 200, PollSeq[1], TranscriptSeq[1]),
          Service(TRUE, TRUE, 200, 500, PollSeq[1], TranscriptSeq[1]) >>
    \o [i \in 1..Len(FoundSeq) |-> Answering(PollSeq[1], FoundSeq[i])]

ServiceIds == 1..Len(ServiceSeq)

\* What each scorer returns on each input, for either way round() falls.
FaceOutcomeOf ==
    [up \in BOOLEAN |-> [v \in VideoIds |-> [fault \in Faults |->
        check_for_human_face(VideoSeq[v], fault, up)]]]

SpeechOutcomeOf ==
    [up \in BOOLEAN |-> [v \in VideoIds |-> [fault \in Faults |->
        check_for_speaking_person(VideoSeq[v], fault, up)]]]

TranscriptOutcomeOf ==
    [up \in BOOLEAN |-> [i \in ServiceIds |-> check_transcript_content(ServiceSeq[i], up)]]


\* The sum that forgets the adjusted weights.
weighted_score_unadjusted(face_score, speaking_score, transcript_score) ==
    5 * face_score + 3 * speaking_score + 2 * transcript_score

\* validate_video lines 159-165, in thousandths: scores are hundredths and
\* the weights tenths.
weighted_score(face_score, speaking_score, transcript_score) ==
    IF transcript_score > 0
    THEN 5 * face_score + 3 * speaking_score + 2 * transcript_score
    ELSE 6 * face_score + 4 * speaking_score

\* round(weighted_score, 2) in hundredths.  A sum half-way between two
\* hundredths has no exact float, so either neighbour can come out.
round2(w) ==
    IF w % 10 = 5 THEN { w \div 10, w \div 10 + 1 }
    ELSE IF w % 10 < 5 THEN { w \div 10 }
    ELSE { w \div 10 + 1 }

\* A threshold that leaves out 70 itself.
meets_threshold_strict(confidence) == confidence > 7000

\* validate_video line 170: results["confidence"] >= 70
meets_threshold(confidence) == confidence >= 7000

Reason(text, details) == [text |-> text, details |-> details]

\* The same tests with the speaking score looked at first.
failure_reason_speaking_first(face_score, speaking_score, transcript_check) ==
    IF speaking_score < 4000
    THEN Reason("No consistent speaking person detected", "")
    ELSE IF face_score < 4000 THEN Reason("Insufficient face detection", "")
    ELSE IF transcript_check.score < 3000 /\ transcript_check.details # ""
    THEN Reason("Non-interview content detected", transcript_check.details)
    ELSE Reason("Multiple validation checks failed", "")

\* validate_video lines 176-184
failure_reason(face_score, speaking_score, transcript_check) ==
    IF face_score < 4000 THEN Reason("Insufficient face detection", "")
    ELSE IF speaking_score < 4000
    THEN Reason("No consistent speaking person detected", "")
    ELSE IF transcript_check.score < 3000 /\ transcript_check.details # ""
    THEN Reason("Non-interview content detected", transcript_check.details)
    ELSE Reason("Multiple validation checks failed", "")

Verdict(is_valid, confidence, reason, checks) ==
    [is_valid |-> is_valid, confidence |-> confidence, reason |-> reason,
     checks |-> checks]

\* validate_video lines 126-136: the video file does not exist.
missing_verdict == Verdict(FALSE, 0, Reason("Video file does not exist", ""), {})

Checks(face_check, speaking_check, transcript_check) ==
    { << "face_detection", face_check >>, << "speaking_person", speaking_check >>,
      << "transcript_content", transcript_check >> }

\* validate_video lines 167-186 for one outcome of round().
verdict_of(face_check, speaking_check, transcript_check, confidence) ==
    Verdict(meets_threshold(confidence), confidence,
            IF meets_threshold(confidence)
            THEN Reason("Passed validation checks with sufficient confidence", "")
            ELSE failure_reason(face_check.score, speaking_check.score,
                                transcript_check),
            Checks(face_check, speaking_check, transcript_check))

Validation(called, exists, run, face_check, speaking_check, transcript_check) ==
    [called |-> called, exists |-> exists, transcript_run |-> run,
     face |-> face_check, speaking |-> speaking_check,
     transcript |-> transcript_check]

NoValidation ==
    Validation(FALSE, FALSE, FALSE, NoTranscriptCheck, NoTranscriptCheck,
               NoTranscriptCheck)

NoVerdict == Verdict(FALSE, 0, Reason("Unknown", ""), {})

\* validate_video on a path where no file is.
validate_missing_video ==
    /\ verdict' = missing_verdict
    /\ vlast' = [NoValidation EXCEPT !.called = TRUE]
    /\ UNCHANGED << collection, speech, reportVars, writerVars, audioVars,
                    hashVars, otherVars >>

\* validate_video on an existing file, given what the scorers return there.
validate_video_scored(transcript_run, face_check, speaking_check, transcript_check) ==
    /\ \E confidence \in round2(weighted_score(face_check.score, speaking_check.score,
                                               transcript_check.score)) :
          verdict' = verdict_of(face_check, speaking_check, transcript_check,
                                confidence)
    /\ vlast' = Validation(TRUE, TRUE, transcript_run, face_check, speaking_check,
                           transcript_check)
    /\ UNCHANGED << collection, speech, reportVars, writerVars, audioVars,
                    hashVars, otherVars >>

\* validate_video lines 146-149: the transcript check runs only with an
\* audio path, an api key and an existing audio file.
validate_video(transcript_run, face_check, speaking_check, transcript_check) ==
    validate_video_scored(transcript_run, face_check, speaking_check,
                          IF transcript_run THEN transcript_check
                          ELSE NoTranscriptCheck)

ValidateMissingVideo == validate_missing_video

ValidateVideo ==
    \E transcript_run \in BOOLEAN, face_check \in FaceChecks,
       speaking_check \in SpeakingChecks, transcript_check \in TranscriptChecks :
        validate_video(transcript_run, face_check, speaking_check, transcript_check)

(***************************************************************************)
(* The scorers called one at a time.                                       *)
(***************************************************************************)
ScorerCall(scorer, input, fault, outcome) ==
    [scorer |-> scorer, input |-> input, fault |-> fault, outcome |-> outcome]

NoScorerCall == ScorerCall("none", 0, "none", Outcome(FALSE, NoTranscriptCheck, 0))

check_for_human_face_call(v, fault) ==
    /\ scored' = ScorerCall("face", v, fault, FaceOutcomeOf[half_up][v][fault])
    /\ UNCHANGED << collection, speech, reportVars, writerVars, audioVars, hashVars,
                    validateVars, half_up, runVars, analyzeVars, stepVars >>

check_for_speaking_person_call(v, fault) ==
    /\ scored' = ScorerCall("speech", v, fault, SpeechOutcomeOf[half_up][v][fault])
    /\ UNCHANGED << collection, speech, reportVars, writerVars, audioVars, hashVars,
                    validateVars, half_up, runVars, analyzeVars, stepVars >>

check_transcript_content_call(i) ==
    /\ scored' = ScorerCall("transcript", i, "none", TranscriptOutcomeOf[half_up][i])
    /\ UNCHANGED << collection, speech, reportVars, writerVars, audioVars, hashVars,
                    validateVars, half_up, runVars, analyzeVars, stepVars >>

CheckForHumanFace == \E v \in VideoIds, fault \in Faults : check_for_human_face_call(v, fault)

CheckForSpeakingPerson ==
    \E v \in VideoIds, fault \in Faults : check_for_speaking_person_call(v, fault)

CheckTranscriptContent == \E i \in ServiceIds : check_transcript_content_call(i)

(***************************************************************************)
(* validate_video taken step by step: the file test, the face check, the   *)
(* speaking check, the transcript check when it applies, the scoring and   *)
(* the return.                                                             *)
(***************************************************************************)
RunInput(exists, video, face_fault, speech_fault, audio_path, api_key, audio_exists, service) ==
    [exists |-> exists, video |-> video, face_fault |-> face_fault,
     speech_fault |-> speech_fault, audio_path |-> audio_path,
     api_key |-> api_key, audio_exists |-> audio_exists, service |-> service]

\* The calls of the model: a talking head (video 8) with a transcript, without
\* an audio path, an api key or an audio file, with each scorer raising, with
\* a service that reports error, completes too late, answers 500 or refuses
\* the upload, a missing video file, the video on the pass marks (5), an
\* unreadable video with every scorer failing, two more videos, the video
\* on the pass marks without a transcript check, and a transcript of nine
\* characters, an empty one and none.
RunInputSeq ==
    << RunInput(TRUE, 8, "none", "none", TRUE, TRUE, TRUE, 1),
       RunInput(TRUE, 8, "none", "none", FALSE, TRUE, TRUE, 1),
       RunInput(TRUE, 8, "none", "none", TRUE, FALSE, TRUE, 1),
       RunInput(TRUE, 8, "none", "none", TRUE, TRUE, FALSE, 1),
       RunInput(TRUE, 8, "capture", "none", TRUE, TRUE, TRUE, 1),
       RunInput(TRUE, 8, "none", "detector", TRUE, TRUE, TRUE, 1),
       RunInput(TRUE, 8, "none", "none", TRUE, TRUE, TRUE, 10),
       RunInput(TRUE, 8, "none", "none", TRUE, TRUE, TRUE, 15),
       RunInput(TRUE, 8, "none", "none", TRUE, TRUE, TRUE, 13),
       RunInput(TRUE, 8, "none", "none", TRUE, TRUE, TRUE, 16),
       RunInput(TRUE, 8, "none", "none", TRUE, TRUE, TRUE, 22),
       RunInput(FALSE, 8, "none", "none", TRUE, TRUE, TRUE, 1),
       RunInput(TRUE, 5, "none", "none", TRUE, TRUE, TRUE, 3),
       RunInput(TRUE, 1, "capture", "capture", TRUE, TRUE, TRUE, 20),
       RunInput(TRUE, 15, "none", "none", TRUE, TRUE, TRUE, 2),
       RunInput(TRUE, 10, "none", "none", FALSE, FALSE, FALSE, 1),
       RunInput(TRUE, 5, "none", "none", FALSE, FALSE, FALSE, 1),
       RunInput(TRUE, 8, "none", "none", TRUE, TRUE, TRUE, Len(ServiceSeq) - 1),
       RunInput(TRUE, 8, "none", "none", TRUE, TRUE, TRUE, 9),
       RunInput(TRUE, 8, "none", "none", TRUE, TRUE, TRUE, 21) >>

RunInputIds == 1..Len(RunInputSeq)

ValidationRun(inp, face_check, speaking_check, transcript_check, confidence, trace) ==
    [inp |-> inp, face |-> face_check, speaking |-> speaking_check,
     transcript |-> transcript_check, confidence |-> confidence, trace |-> trace]

NoCheck == Check(FALSE, 0, "")

NoRun == ValidationRun(0, NoCheck, NoCheck, NoCheck, 0, <<>>)

Previous(inp, returned) == [inp |-> inp, verdict |-> returned]

NoPrevious == Previous(0, NoVerdict)

\* A transcript check made whatever the arguments.
transcript_always(inp) == TRUE

\* line 148: if audio_path and api_key and os.path.exists(audio_path)
transcript_wanted(inp) == inp.audio_path /\ inp.api_key /\ inp.audio_exists

\* round(weighted_score, 2) as this build computes it.
round2_build(w, up) ==
    IF w % 10 = 5 THEN (IF up THEN w \div 10 + 1 ELSE w \div 10)
    ELSE CHOOSE c \in round2(w) : TRUE

Stepped(name) == [vrun EXCEPT !.trace = Append(@, name)]

\* lines 126-136: the call begins; a missing file returns at once.
validate_start(i) ==
    /\ vpc \in {"idle", "done", "raised"}
    /\ vprev' = IF vpc = "done" THEN Previous(vrun.inp, verdict) ELSE vprev
    /\ IF RunInputSeq[i].exists
       THEN /\ vrun' = ValidationRun(i, NoCheck, NoCheck, NoCheck, 0, <<>>)
            /\ vpc' = "started"
            /\ UNCHANGED validateVars
       ELSE /\ vrun' = ValidationRun(i, NoCheck, NoCheck, NoCheck, 0, << "return" >>)
            /\ vpc' = "done"
            /\ verdict' = missing_verdict
            /\ vlast' = [NoValidation EXCEPT !.called = TRUE]
    /\ UNCHANGED << collection, speech, reportVars, writerVars, audioVars, hashVars,
                    scorerVars, analyzeVars, stepVars >>

\* A scorer has returned `outcome`, or its exception leaves validate_video.
AfterScorer(outcome, next, run) ==
    /\ vpc' = IF outcome.exc THEN "raised" ELSE next
    /\ vrun' = IF outcome.exc THEN vrun ELSE run
    /\ UNCHANGED << collection, speech, reportVars, writerVars, audioVars, hashVars,
                    validateVars, scorerVars, vprev, analyzeVars, stepVars >>

\* lines 138-140
validate_face(inp) ==
    /\ vpc = "started"
    /\ AfterScorer(FaceOutcomeOf[half_up][inp.video][inp.face_fault], "face_checked",
                   [Stepped("face") EXCEPT
                       !.face = FaceOutcomeOf[half_up][inp.video][inp.face_fault].check])

\* lines 142-144
validate_speaking(inp) ==
    /\ vpc = "face_checked"
    /\ AfterScorer(SpeechOutcomeOf[half_up][inp.video][inp.speech_fault],
                   "speech_checked",
                   [Stepped("speech") EXCEPT
                       !.speaking =
                           SpeechOutcomeOf[half_up][inp.video][inp.speech_fault].check])

\* lines 146-149, when the transcript check is made
validate_transcript(inp) ==
    /\ vpc = "speech_checked"
    /\ transcript_wanted(inp)
    /\ AfterScorer(TranscriptOutcomeOf[half_up][inp.service], "transcript_checked",
                   [Stepped("transcript") EXCEPT
                       !.transcript = TranscriptOutcomeOf[half_up][inp.service].check])

\* lines 147-167: the default transcript check when none was made, the
\* weighted score and its rounding.
validate_score(inp, transcript_check) ==
    /\ \/ vpc = "transcript_checked"
       \/ vpc = "speech_checked" /\ ~transcript_wanted(inp)
    /\ vrun' = [Stepped("score") EXCEPT
                   !.transcript = transcript_check,
                   !.confidence =
                       round2_build(weighted_score(vrun.face.score, vrun.speaking.score,
                                                   transcript_check.score), half_up)]
    /\ vpc' = "scored"
    /\ UNCHANGED << collection, speech, reportVars, writerVars, audioVars, hashVars,
                    validateVars, scorerVars, vprev, analyzeVars, stepVars >>

\* lines 169-186
validate_return(inp) ==
    /\ vpc = "scored"
    /\ verdict' = verdict_of(vrun.face, vrun.speaking, vrun.transcript, vrun.confidence)
    /\ vlast' = Validation(TRUE, TRUE, "transcript" \in Range(vrun.trace), vrun.face,
                           vrun.speaking, vrun.transcript)
    /\ vrun' = Stepped("return")
    /\ vpc' = "done"
    /\ UNCHANGED << collection, speech, reportVars, writerVars, audioVars, hashVars,
                    scorerVars, vprev, analyzeVars, stepVars >>

ValidateStart == \E i \in RunInputIds : validate_start(i)

ValidateFace == vrun.inp # 0 /\ validate_face(RunInputSeq[vrun.inp])

ValidateSpeaking == vrun.inp # 0 /\ validate_speaking(RunInputSeq[vrun.inp])

ValidateTranscript == vrun.inp # 0 /\ validate_transcript(RunInputSeq[vrun.inp])

ValidateScore ==
    /\ vrun.inp # 0
    /\ validate_score(RunInputSeq[vrun.inp],
                      IF vpc = "transcript_checked" THEN vrun.transcript
                      ELSE NoTranscriptCheck)

ValidateReturn == vrun.inp # 0 /\ validate_return(RunInputSeq[vrun.inp])

(***************************************************************************)
(* analyze_audio taken step by step: the cache lookup, the upload, the     *)
(* transcription request and the polling loop with its sleep.  A job is    *)
(* how the service behaves for one call: the status of the upload and of   *)
(* the request, the answers of the successive polls (the last one repeats  *)
(* for every later poll) and whether a completed job carries words.        *)
(***************************************************************************)
Job(upload, request, polls, words) ==
    [upload |-> upload, request |-> request, polls |-> polls, words |-> words]

JobSeq ==
    << Job(200, 200, << "completed" >>, TRUE),
       Job(200, 200, << "queued", "processing", "completed" >>, TRUE),
       Job(200, 200, << "processing", "processing", "processing", "processing",
                        "processing", "processing", "completed" >>, TRUE),
       Job(200, 200, << "processing", "completed" >>, FALSE),
       Job(200, 200, << "queued", "error" >>, TRUE),
       Job(200, 200, << "processing", "http500" >>, TRUE),
       Job(200, 200, << "badjson" >>, TRUE),
       Job(500, 200, << "completed" >>, TRUE),
       Job(200, 500, << "completed" >>, TRUE),
       Job(200, 200, << "queued", "processing" >>, TRUE),
       Job(200, 200, << "queued" >>, TRUE) >>

JobIds == 1..Len(JobSeq)

\* The audio files analyze_audio is called on; the first two have the same
\* first ReadLimit bytes.
AnalyzePaths == {1, 2, 4}

\* lines 144-162: the dict of zero scores returned after any exception.
DefaultAnalysis == [kind |-> "default", text |-> <<>>]

AnalyzeRun(path, job, up, attempt, result) ==
    [path |-> path, job |-> job, up |-> up, attempt |-> attempt, result |-> result]

NoAnalyzeRun == AnalyzeRun(1, 1, TRUE, 0, NoAnalysis)

AnalyzeReturned(result) == [arun EXCEPT !.result = result]

\* lines 24-31: the call begins with the cache lookup; a cached analysis is
\* returned at once.
analyze_lookup(path, job, up) ==
    /\ apc \in {"idle", "returned"}
    /\ IF get_cached_analysis(speech, path, up) # NoAnalysis
       THEN /\ apc' = "returned"
            /\ arun' = AnalyzeRun(path, job, up, 0,
                                  get_cached_analysis(speech, path, up))
       ELSE /\ apc' = "upload"
            /\ arun' = AnalyzeRun(path, job, up, 0, NoAnalysis)
    /\ UNCHANGED << speech, collection, reportVars, writerVars, audioVars, hashVars,
                    validateVars, scorerVars, runVars,
                    stepVars >>

\* A handler that stores the default analysis it returns.
AnalyzeStepCaching(raises, next, run) ==
    /\ apc' = IF raises THEN "returned" ELSE next
    /\ arun' = IF raises THEN AnalyzeReturned(DefaultAnalysis) ELSE run
    /\ speech' = IF raises
                 THEN cache_analysis(speech, DefaultAnalysis, arun.path, arun.up).coll
                 ELSE speech
    /\ UNCHANGED << collection, reportVars, writerVars, audioVars, hashVars,
                    validateVars, scorerVars, runVars, stepVars >>

\* A step that touches neither store: it moves to `next` or raises, which
\* the handler of lines 143-162 turns into the default analysis.
AnalyzeStep(raises, next, run) ==
    /\ apc' = IF raises THEN "returned" ELSE next
    /\ arun' = IF raises THEN AnalyzeReturned(DefaultAnalysis) ELSE run
    /\ UNCHANGED << speech, collection, reportVars, writerVars, audioVars, hashVars,
                    validateVars, scorerVars, runVars,
                    stepVars >>

\* lines 38-52
analyze_upload(job) ==
    /\ apc = "upload"
    /\ AnalyzeStep(job.upload # 200, "request", arun)

\* lines 54-72
analyze_request(job) ==
    /\ apc = "request"
    /\ AnalyzeStep(job.request # 200, "polling", [arun EXCEPT !.attempt = 1])

\* A poll that leaves the loop of line 75 by an exception: the job failed
\* (133-135), the answer was not 200 (139-141) or not JSON (80), or the
\* completed job has no words (130-132).
PollRaises(job, answer) ==
    \/ answer \in {"error", "http500", "badjson"}
    \/ answer = "completed" /\ ~job.words

\* lines 75-141: one pass of `while True`, up to the sleep.
analyze_poll(job, answer) ==
    /\ apc = "polling"
    /\ IF answer = "completed" /\ job.words
       THEN /\ speech' = cache_analysis(speech, Analysis(arun.path), arun.path,
                                        arun.up).coll
            /\ apc' = "returned"
            /\ arun' = AnalyzeReturned(Analysis(arun.path))
            /\ UNCHANGED << collection, reportVars, writerVars, audioVars, hashVars,
                            validateVars, scorerVars, runVars,
                    stepVars >>
       ELSE AnalyzeStep(PollRaises(job, answer), "sleeping", arun)

\* lines 137-138: time.sleep(3), then the next pass of the loop.
analyze_sleep(job) ==
    /\ apc = "sleeping"
    /\ AnalyzeStep(FALSE, "polling",
                   [arun EXCEPT !.attempt = Min(@ + 1, Len(job.polls))])

AnalyzeLookup ==
    \E path \in AnalyzePaths, job \in JobIds, up \in BOOLEAN :
        analyze_lookup(path, job, up)

AnalyzeUpload == analyze_upload(JobSeq[arun.job])

AnalyzeRequest == analyze_request(JobSeq[arun.job])

AnalyzePoll ==
    /\ arun.attempt > 0
    /\ analyze_poll(JobSeq[arun.job], PollAt(JobSeq[arun.job].polls, arun.attempt))

AnalyzeSleep == analyze_sleep(JobSeq[arun.job])


(***************************************************************************)
(* The sampling loop of the two video scorers, one pass at a time.  A       *)
(* stream is what the capture offers: the frame count and fps (tenths) of  *)
(* its header, how many frames cap.read() delivers before it fails, and    *)
(* whether it delivers frames without end.                                 *)
(***************************************************************************)
Stream(total_frames, fps, readable, endless) ==
    [total_frames |-> total_frames, fps |-> fps, readable |-> readable,
     endless |-> endless]

\* 10 frames at 30 fps; 45 and 61 frames at 30 fps; 10 frames at 0.5 fps;
\* 40 frames at 2 fps; 100 frames without an fps; a header of 10 frames and
\* no readable frame; two streams without end; one frame at 1 fps.
StreamSeq ==
    << Stream(10, 300, 10, FALSE),
       Stream(45, 300, 45, FALSE),
       Stream(61, 300, 61, FALSE),
       Stream(10, 5, 10, FALSE),
       Stream(40, 20, 40, FALSE),
       Stream(100, 0, 100, FALSE),
       Stream(10, 20, 0, FALSE),
       Stream(1000, 20, 0, TRUE),
       Stream(1000, 0, 0, TRUE),
       Stream(1, 10, 1, FALSE) >>

StreamIds == 1..Len(StreamSeq)

Loop(at, scorer, stream, interval, frame_idx, frames_sampled, reads, samples) ==
    [at |-> at, scorer |-> scorer, stream |-> stream, interval |-> interval,
     frame_idx |-> frame_idx, frames_sampled |-> frames_sampled, reads |-> reads,
     samples |-> samples]

NoLoop == Loop("idle", "none", 1, 1, 0, 0, 0, << >>)

\* lines 204 and 326: the scorer returns before its loop.
loop_skipped(scorer, stream) ==
    IF scorer = "face" THEN face_invalid(stream) ELSE speech_invalid(stream)

\* lines 209-210 and 331-332
sample_interval(scorer, stream) ==
    IF scorer = "face" THEN face_interval(stream) ELSE speech_interval(stream)

\* A loop without the ceiling on its samples.
loop_unlimited(l) == TRUE

\* lines 222 and 346: `while cap.isOpened() and frames_sampled < 15`
loop_continues(l) == l.frames_sampled < 15

\* cap.read(): whether a frame comes back at this index.
read_ok(stream, frame_idx) == stream.endless \/ frame_idx < stream.readable

\* lines 198-220 and 322-344: the capture is opened and the loop is reached.
sampling_begin(scorer, s) ==
    /\ loop.at \in {"idle", "released"}
    /\ ~loop_skipped(scorer, StreamSeq[s])
    /\ loop' = Loop("loop", scorer, s, sample_interval(scorer, StreamSeq[s]),
                    0, 0, 0, << >>)
    /\ UNCHANGED << collection, speech, reportVars, writerVars, audioVars, hashVars,
                    validateVars, scorerVars, runVars, analyzeVars, tsample, compared >>

\* lines 222-253 and 346-382: the loop test, then one pass: the read, the
\* break when it fails, the sample when the index is a multiple of the
\* interval, the increment; cap.release() when the loop is left.
sampling_pass(stream) ==
    /\ loop.at = "loop"
    /\ IF ~loop_continues(loop)
       THEN loop' = [loop EXCEPT !.at = "released"]
       ELSE IF ~read_ok(stream, loop.frame_idx)
       THEN loop' = [loop EXCEPT !.at = "released", !.reads = @ + 1]
       ELSE IF loop.frame_idx % loop.interval = 0
       THEN loop' = [loop EXCEPT !.reads = @ + 1,
                                 !.frames_sampled = @ + 1,
                                 !.samples = Append(@, loop.frame_idx),
                                 !.frame_idx = @ + 1]
       ELSE loop' = [loop EXCEPT !.reads = @ + 1, !.frame_idx = @ + 1]
    /\ UNCHANGED << collection, speech, reportVars, writerVars, audioVars, hashVars,
                    validateVars, scorerVars, runVars, analyzeVars, tsample, compared >>

SamplingBegin ==
    \E scorer \in {"face", "speech"}, s \in StreamIds : sampling_begin(scorer, s)

SamplingPass == sampling_pass(StreamSeq[loop.stream])

(***************************************************************************)
(* get_transcript_sample taken step by step: the path of the sample, ffmpeg, *)
(* the upload, the transcription request, the polls and the removal of the *)
(* sample.  A path is the sequence of its characters; `files` are the files *)
(* of the directory.                                                       *)
(***************************************************************************)
RECURSIVE replace_from(_, _, _, _)
replace_from(text, old, new, i) ==
    IF i > Len(text) THEN << >>
    ELSE IF OccursAt(old, text, i)
    THEN new \o replace_from(text, old, new, i + Len(old))
    ELSE << text[i] >> \o replace_from(text, old, new, i + 1)

\* str.replace(old, new): every occurrence, from the left.
str_replace(text, old, new) == replace_from(text, old, new, 1)

\* line 45: audio_path.replace('.mp3', '_sample.mp3')
temp_sample_path(audio_path) ==
    str_replace(audio_path, << ".", "m", "p", "3" >>,
                << "_", "s", "a", "m", "p", "l", "e", ".", "m", "p", "3" >>)

\* a.mp3, a.wav, a.MP3 and b.mp3.mp3
AudioNameSeq ==
    << << "a", ".", "m", "p", "3" >>,
       << "a", ".", "w", "a", "v" >>,
       << "a", ".", "M", "P", "3" >>,
       << "b", ".", "m", "p", "3", ".", "m", "p", "3" >> >>

AudioNameIds == 1..Len(AudioNameSeq)

SamplePathOf == [p \in AudioNameIds |-> temp_sample_path(AudioNameSeq[p])]

\* The services a sample is sent to: every way of polling, every failure,
\* and the first of the texts.
SampleServiceIds == 1..(Len(ServiceSeq) - Len(TextSeq) + 1)

SampleCall(at, path, service, files, attempts, polls_sent, result) ==
    [at |-> at, path |-> path, service |-> service, files |-> files,
     attempts |-> attempts, polls_sent |-> polls_sent, result |-> result]

NoSampleCall == SampleCall("idle", 1, 1, { AudioNameSeq[1] }, 0, 0, NoTranscript)

\* A return of None, by `return None` or through the handler of lines 115-117.
SampleNone == [tsample EXCEPT !.at = "returned", !.result = NoTranscript]

SampleStep(call) ==
    /\ tsample' = call
    /\ UNCHANGED << collection, speech, reportVars, writerVars, audioVars, hashVars,
                    validateVars, scorerVars, runVars, analyzeVars, loop, compared >>

\* line 45: the call begins on an audio file that exists.
sample_begin(p, i) ==
    /\ tsample.at \in {"idle", "returned"}
    /\ SampleStep(SampleCall("ffmpeg", p, i, { AudioNameSeq[p] }, 0, 0, NoTranscript))

\* lines 48-55: ffmpeg writes the sample, unless it fails or the sample path
\* is the path of its input, which it refuses to write over; without the
\* sample file the call returns None.
sample_ffmpeg(service, audio_path, sample_path) ==
    /\ tsample.at = "ffmpeg"
    /\ IF ~service.ffmpeg THEN SampleStep(SampleNone)
       ELSE IF sample_path = audio_path
       THEN SampleStep([tsample EXCEPT !.at = "upload"])
       ELSE IF service.sample
       THEN SampleStep([tsample EXCEPT !.at = "upload",
                                       !.files = @ \cup { sample_path }])
       ELSE SampleStep(SampleNone)

\* lines 63-74
sample_upload(service) ==
    /\ tsample.at = "upload"
    /\ SampleStep(IF service.upload # 200 THEN SampleNone
                  ELSE [tsample EXCEPT !.at = "request"])

\* lines 76-86
sample_request(service) ==
    /\ tsample.at = "request"
    /\ SampleStep(IF service.request # 200 THEN SampleNone
                  ELSE [tsample EXCEPT !.at = "polling"])

\* A loop that never gives up.
attempts_unlimited(attempts) == TRUE

\* line 89: `while attempts < 5`
attempts_left(attempts) == attempts < 5

\* lines 89-113: the loop test, then one pass: the request, the return of the
\* text with the removal of the sample when the job is completed, otherwise
\* the increment and the sleep.
sample_poll(service, sample_path, answer) ==
    /\ tsample.at = "polling"
    /\ IF ~attempts_left(tsample.attempts) THEN SampleStep(SampleNone)
       ELSE IF answer = "completed"
       THEN SampleStep([tsample EXCEPT !.at = "returned",
                                       !.polls_sent = @ + 1,
                                       !.files = @ \ { sample_path },
                                       !.result = service.text])
       ELSE IF answer = "badjson"
       THEN SampleStep([SampleNone EXCEPT !.polls_sent = @ + 1])
       ELSE SampleStep([tsample EXCEPT !.polls_sent = @ + 1, !.attempts = @ + 1])

SampleBegin == \E p \in AudioNameIds, i \in SampleServiceIds : sample_begin(p, i)

SampleFfmpeg ==
    sample_ffmpeg(ServiceSeq[tsample.service], AudioNameSeq[tsample.path],
                  SamplePathOf[tsample.path])

SampleUpload == sample_upload(ServiceSeq[tsample.service])

SampleRequest == sample_request(ServiceSeq[tsample.service])

SamplePoll ==
    sample_poll(ServiceSeq[tsample.service], SamplePathOf[tsample.path],
                PollAt(ServiceSeq[tsample.service].polls, tsample.attempts + 1))

(***************************************************************************)
(* Two validate_video calls whose checks differ in the transcript score     *)
(* only.                                                                   *)
(***************************************************************************)
Compared(face_score, speaking_score, t1, t2, c1, c2) ==
    [face |-> face_score, speaking |-> speaking_score, t1 |-> t1, t2 |-> t2,
     c1 |-> c1, c2 |-> c2, valid1 |-> meets_threshold(c1),
     valid2 |-> meets_threshold(c2)]

NoCompared == Compared(0, 0, 0, 0, 0, 0)

\* Scores the video scorers and the transcript scorer can return.
VideoScores == {0, 3000, 8000, 10000}

RelevanceScores == {0, 1000, 2500, 5000, 10000}

\* lines 152-172 for each of the two calls
validate_pair(face_score, speaking_score, t1, t2) ==
    /\ compared' = Compared(face_score, speaking_score, t1, t2,
                            round2_build(weighted_score(face_score, speaking_score, t1),
                                         half_up),
                            round2_build(weighted_score(face_score, speaking_score, t2),
                                         half_up))
    /\ UNCHANGED << collection, speech, reportVars, writerVars, audioVars, hashVars,
                    validateVars, scorerVars, runVars, analyzeVars, loop, tsample >>

ValidatePair ==
    \E face_score \in VideoScores, speaking_score \in VideoScores :
        \E t1 \in RelevanceScores, t2 \in RelevanceScores :
            t1 <= t2 /\ validate_pair(face_score, speaking_score, t1, t2)

(***************************************************************************)
(* Initial state and specifications.                                       *)
(***************************************************************************)
Init ==
    /\ collection = <<>>
    /\ model \in {"ready", "none"}
    /\ ret = NoResult
    /\ raised = FALSE
    /\ last = NoCall
    /\ report_calls = 0
    /\ gen_calls = [fp \in Fingerprints |-> 0]
    /\ first_gen = [fp \in Fingerprints |-> NoResult]
    /\ store_failed = FALSE
    /\ gen_failed = FALSE
    /\ malformed_writes = 0
    /\ speech = <<>>
    /\ pc = [r \in Runs |-> "idle"]
    /\ pending = [r \in Runs |-> NoWrite]
    /\ report_last = [fp \in Fingerprints |-> NoDocument]
    /\ speech_last = [h \in AudioHashes |-> NoSpeechDoc]
    /\ store_writes = 0
    /\ audio_ret = NoAnalysis
    /\ audio_last = AudioCall("none", 1, TRUE, TRUE)
    /\ audio_ops = 0
    /\ cached_for = [b \in AudioPrefixes |-> NoAnalysis]
    /\ hashed = << NoRecord, NoRecord >>
    /\ digests = << NoDigest, NoDigest >>
    /\ verdict = NoVerdict
    /\ vlast = NoValidation
    /\ half_up \in BOOLEAN
    /\ scored = NoScorerCall
    /\ vpc = "idle"
    /\ vrun = NoRun
    /\ vprev = NoPrevious
    /\ apc = "idle"
    /\ arun = NoAnalyzeRun
    /\ loop = NoLoop
    /\ tsample = NoSampleCall
    /\ compared = NoCompared

\* One AIReportGenerator serving generate_report calls.
Next == GenerateReport

Spec == Init /\ [][Next]_vars

\* The same with a store that answers, and entries written by something else.
NextMalformed == GenerateReportStoreUp \/ StoreMalformed

SpecMalformed == Init /\ [][NextMalformed]_vars

\* Generator processes that follow one another on one persist directory.
NextRestart == GenerateReport \/ InitGenerator

SpecRestart == Init /\ [][NextRestart]_vars

\* Independent runs writing reports and analyses to the shared stores.
NextWriters ==
    \/ BeginCacheReport
    \/ BeginCacheAnalysis
    \/ FinishCacheReport
    \/ FinishCacheAnalysis

SpecWriters == Init /\ [][NextWriters]_vars

\* One SpeechAnalysisCache caching and looking up analyses of audio files.
NextAudio == CacheAnalysis \/ GetCachedAnalysis

SpecAudio == Init /\ [][NextAudio]_vars

\* generate_hash on its own.
NextHash == GenerateHash

SpecHash == Init /\ [][NextHash]_vars

\* validate_video on its own.
NextValidate == ValidateMissingVideo \/ ValidateVideo

SpecValidate == Init /\ [][NextValidate]_vars

\* validate_video runs that follow one another, each taken step by step.
NextRun ==
    \/ ValidateStart
    \/ ValidateFace
    \/ ValidateSpeaking
    \/ ValidateTranscript
    \/ ValidateScore
    \/ ValidateReturn

SpecRun == Init /\ [][NextRun]_vars

\* analyze_audio calls that follow one another, each taken step by step.  A
\* call that has begun keeps running: nothing in the code suspends it.
NextAnalyze ==
    \/ AnalyzeLookup
    \/ AnalyzeUpload
    \/ AnalyzeRequest
    \/ AnalyzePoll
    \/ AnalyzeSleep

SpecAnalyze == Init /\ [][NextAnalyze]_vars /\ WF_vars(NextAnalyze)

\* The sampling loop of a scorer on its own; a loop that has begun keeps
\* running.
NextSampling == SamplingBegin \/ SamplingPass

SpecSampling == Init /\ [][NextSampling]_vars /\ WF_vars(NextSampling)

\* get_transcript_sample calls that follow one another, step by step.
NextSample == SampleBegin \/ SampleFfmpeg \/ SampleUpload \/ SampleRequest \/ SamplePoll

SpecSample == Init /\ [][NextSample]_vars

\* Pairs of validate_video calls.
NextPair == ValidatePair

SpecPair == Init /\ [][NextPair]_vars

\* The three scorers on their own.
NextScorers == CheckForHumanFace \/ CheckForSpeakingPerson \/ CheckTranscriptContent

SpecScorers == Init /\ [][NextScorers]_vars

(***************************************************************************)
(* Claims about AIReportGenerator.generate_report                          *)
(***************************************************************************)
Called == report_calls > 0

LastFp == HashOf[last.p]

\* The document stored under a fingerprint in a collection, if any.
HasEntry(coll, fp) == \E i \in 1..Len(coll) : coll[i].id = fp

DocOf(coll, fp) == coll[CHOOSE i \in 1..Len(coll) : coll[i].id = fp].doc

Accepted(cached) == cache_accepts(cached.text, cached.score)

\* C1: over any sequence of generate_report calls (no eviction), the external
\* generation model.generate_content is invoked at most once per payload
\* fingerprint.  Stated here for the runs in which the store answered every
\* call and no generation raised, which the claim includes.
C1_AtMostOneGenerationPerFingerprint ==
    (~store_failed /\ ~gen_failed) => \A fp \in Fingerprints : gen_calls[fp] <= 1

\* C2: once a first call produced (evaluation_text, score) through a
\* successful generation, a later call with an equal payload returns exactly
\* that pair from the cache and does not invoke the generation again (the
\* store answering every call).
C2_SecondCallReturnsCached ==
    (Called /\ ~store_failed /\ last.prior # NoResult)
        => (last.path = "hit" /\ ret = last.prior)

\* C3: when model.generate_content raises, generate_report returns the
\* locally assembled fallback report and leaves the store as it was: no entry
\* is created or overwritten, and a lookup of the same payload is still a miss.
C3_FailedGenerationNotCached ==
    (Called /\ last.path = "gen_error")
        => /\ ret = Result(last.basic, last.score)
           /\ collection = last.before
           /\ ~raised
           /\ last.getUp => ~Accepted(get_cached_report(collection, last.p, TRUE))

C3_Witness ==
    /\ Called
    /\ last.path = "gen_error"
    /\ last.getUp
    /\ Len(collection) > 0
    /\ ~HasEntry(collection, LastFp)

\* C4: when the store's get and upsert raise, generate_report still returns
\* the (evaluation_text, score) of a direct computation and no exception
\* leaves it; get_cached_report reports a miss and cache_report False.
C4_StoreFailureDegrades ==
    /\ ~raised
    /\ (Called /\ ~last.getUp /\ ~last.putUp)
        => /\ last.path \in {"unavailable", "generated", "gen_error"}
           /\ ret.score = last.score
           /\ last.path = "generated" => ret.text \in ModelTexts
           /\ last.path # "generated" => ret.text = last.basic
           /\ ~last.stored
           /\ collection = last.before
           /\ get_cached_report(collection, last.p, FALSE)
                = Lookup3(FALSE, NoneText, NoneScore)
           /\ ~cache_report(collection, last.p, ret.text, ret.score, FALSE).ok

C4_Witness ==
    /\ Called
    /\ ~last.getUp
    /\ ~last.putUp
    /\ last.path = "generated"
    /\ HasEntry(collection, LastFp)

\* C5: a stored entry that is not a report object (invalid JSON, JSON that is
\* not an object, an object lacking evaluation_text or score) is a cache miss
\* for generate_report: the report is recomputed and nothing of the entry is
\* returned.
MalformedBefore ==
    /\ Called
    /\ last.getUp
    /\ HasEntry(last.before, LastFp)
    /\ DocOf(last.before, LastFp) \in MalformedDocs

C5_MalformedEntryIsMiss ==
    MalformedBefore
        => /\ last.path \in {"unavailable", "generated", "gen_error"}
           /\ ret.score = last.score
           /\ ret.text \in ModelTexts \cup {last.basic}

C5_Witness ==
    /\ MalformedBefore
    /\ DocOf(last.before, LastFp) = ObjectDoc(TRUE, StaleText, FALSE, NoneScore)
    /\ last.path = "generated"
    /\ last.putUp
    /\ DocOf(collection, LastFp) = json_dumps_report(ret.text, ret.score)

EntriesOf(coll, id) == { i \in 1..Len(coll) : coll[i].id = id }

\* A store agrees with the upserts completed on it: one entry at most per
\* fingerprint, present exactly when an upsert for it completed, and holding
\* the document of the last one.
AgreesWith(coll, ids, lastDoc, none) ==
    \A id \in ids :
        /\ Cardinality(EntriesOf(coll, id)) <= 1
        /\ HasEntry(coll, id) <=> lastDoc[id] # none
        /\ HasEntry(coll, id) => DocOf(coll, id) = lastDoc[id]

\* C6: for any interleaving of cache_report / cache_analysis writes issued by
\* independent runs that share a store, the store holds at most one entry per
\* fingerprint, and that entry is the payload of the last completed upsert for
\* that fingerprint (overwrite, never append or merge).
C6_LastCompletedUpsertWins ==
    /\ AgreesWith(collection, Fingerprints, report_last, NoDocument)
    /\ AgreesWith(speech, AudioHashes, speech_last, NoSpeechDoc)

\* Both runs have completed a report write for the same fingerprint with
\* different texts, the one that began first completing last.
C6_Witness ==
    /\ \A r \in Runs : pc[r] = "idle" /\ pending[r].op = "report"
                       /\ pending[r].state = "stored"
    /\ HashOf[pending[1].p] = HashOf[pending[2].p]
    /\ pending[1].text # pending[2].text
    /\ Cardinality(EntriesOf(collection, HashOf[pending[1].p])) = 1
    /\ DocOf(collection, HashOf[pending[1].p])
          = json_dumps_report(pending[1].text, pending[1].score)

MapOf == [i \in RecordIds |-> AsMap(RecordSeq[i])]

\* C7: AIReportGenerator.generate_hash is deterministic and independent of
\* key construction order: two analysis records that are equal as (nested)
\* maps always get the same fingerprint, and the same record gets the same
\* fingerprint on every call.
C7_EqualMapsEqualFingerprints ==
    (hashed[1] # NoRecord /\ MapOf[hashed[1]] = MapOf[hashed[2]])
        => digests[1] = digests[2]

C7_Witness ==
    /\ hashed[1] # NoRecord
    /\ RecordSeq[hashed[1]] # RecordSeq[hashed[2]]
    /\ MapOf[hashed[1]] = MapOf[hashed[2]]
    /\ digests[1] = digests[2]

\* C8: two audio files whose first 1 MiB of bytes are equal get the same
\* fingerprint whatever follows the prefix, and files whose first 1 MiB
\* differ are keyed apart: a get_cached_analysis the store answers returns the
\* analysis last cached for a file with the same first 1 MiB, or None when
\* there is none.
C8_PrefixKeysTheCache ==
    (audio_last.op = "get" /\ audio_last.up)
        => audio_ret = cached_for[FirstBytes(audio_last.path)]

\* A lookup for one file returned the analysis cached for another, longer or
\* shorter, file.
C8_Witness ==
    /\ audio_last.op = "get"
    /\ audio_last.up
    /\ audio_ret # NoAnalysis
    /\ audio_ret.text # AudioFileSeq[audio_last.path]
    /\ FirstBytes(audio_last.path) = file_read(audio_ret.text, ReadLimit)

\* The weighted sum of the last validate_video call, in thousandths.
SpecWeighted ==
    IF vlast.transcript.score > 0
    THEN 5 * vlast.face.score + 3 * vlast.speaking.score
         + 2 * vlast.transcript.score
    ELSE 6 * vlast.face.score + 4 * vlast.speaking.score

FaceSpeech80NoTranscript ==
    /\ vlast.exists
    /\ ~vlast.transcript_run
    /\ vlast.face.score = 8000
    /\ vlast.speaking.score = 8000

\* C9 as stated: validate_video computes confidence as 0.5*face + 0.3*speech
\* + 0.2*transcript when the transcript check yielded a score greater than 0,
\* and as 0.6*face + 0.4*speech otherwise; e.g. face=80, speech=80, no
\* transcript gives confidence 80 and is_valid true.
C9_ConfidenceIsWeightedSum ==
    /\ vlast.exists => 10 * verdict.confidence = SpecWeighted
    /\ FaceSpeech80NoTranscript => verdict.confidence = 8000 /\ verdict.is_valid

\* C9 amended: the confidence validate_video reports is that weighted sum
\* rounded to two decimal places (0.5*face + 0.3*speech + 0.2*transcript when
\* the transcript score is greater than 0, 0.6*face + 0.4*speech otherwise);
\* e.g. face=80, speech=80, no transcript gives confidence 80 and is_valid
\* true.
C9_ConfidenceIsRoundedWeightedSum ==
    /\ vlast.exists => (10 * verdict.confidence - SpecWeighted) \in -5..5
    /\ FaceSpeech80NoTranscript => verdict.confidence = 8000 /\ verdict.is_valid

\* A transcript scored above 0 and the sum was not a whole hundredth.
C9_Witness ==
    /\ vlast.exists
    /\ vlast.transcript.score > 0
    /\ 10 * verdict.confidence # SpecWeighted
    /\ (10 * verdict.confidence - SpecWeighted) \in -5..5

\* C10: in every verdict returned by validate_video, is_valid is true if and
\* only if the reported confidence is at least 70; in particular a verdict
\* for a missing video file has confidence 0 and is_valid false.
C10_ValidIffConfidenceAtLeast70 ==
    /\ verdict.is_valid <=> verdict.confidence >= 7000
    /\ (vlast.called /\ ~vlast.exists)
          => /\ verdict.confidence = 0
             /\ ~verdict.is_valid
             /\ verdict.reason.text = "Video file does not exist"

\* A verdict with confidence exactly 70.
C10_Witness ==
    /\ vlast.called
    /\ vlast.exists
    /\ verdict.confidence = 7000
    /\ verdict.is_valid

\* C11: when validate_video yields is_valid false for an existing file, the
\* reason is chosen by strict priority: face score < 40 gives the
\* insufficient-face-detection reason; else speech score < 40 the
\* no-consistent-speaker reason; else transcript score < 30 with details
\* present the non-interview-content reason carrying the detail string; else
\* the generic reason.  E.g. face=30, speech=80, no transcript gives
\* confidence 50 and the face reason.
C11_ReasonByPriority ==
    /\ (vlast.exists /\ ~verdict.is_valid) =>
          /\ vlast.face.score < 4000 =>
                verdict.reason = Reason("Insufficient face detection", "")
          /\ (vlast.face.score >= 4000 /\ vlast.speaking.score < 4000) =>
                verdict.reason = Reason("No consistent speaking person detected", "")
          /\ ( /\ vlast.face.score >= 4000
               /\ vlast.speaking.score >= 4000
               /\ vlast.transcript.score < 3000
               /\ vlast.transcript.details # "" ) =>
                verdict.reason = Reason("Non-interview content detected",
                                        vlast.transcript.details)
          /\ ( /\ vlast.face.score >= 4000
               /\ vlast.speaking.score >= 4000
               /\ ~(vlast.transcript.score < 3000 /\ vlast.transcript.details # "") ) =>
                verdict.reason = Reason("Multiple validation checks failed", "")
    /\ ( /\ vlast.exists
         /\ ~vlast.transcript_run
         /\ vlast.face.score = 3000
         /\ vlast.speaking.score = 8000 ) =>
          /\ verdict.confidence = 5000
          /\ ~verdict.is_valid
          /\ verdict.reason.text = "Insufficient face detection"

\* A failed verdict where the face and the speech score are both under 40.
C11_Witness ==
    /\ vlast.exists
    /\ ~verdict.is_valid
    /\ vlast.face.score < 4000
    /\ vlast.speaking.score < 4000
    /\ verdict.reason.text = "Insufficient face detection"

\* C18: when the text-generation service is unavailable (self.model is None),
\* generate_report returns the locally assembled fallback report and does not
\* write it to the cache, so no fallback report is ever returned as a cache
\* hit once the service is available again.
C18_FallbackNeverCached ==
    /\ (Called /\ last.path = "unavailable") =>
          /\ ret.text = last.basic
          /\ collection = last.before
    /\ (Called /\ last.path = "hit" /\ model = "ready") => ret.text \in ModelTexts

\* C14: for every input (any number of samples up to 15, any detection
\* outcomes, any bounding boxes, any mouth-height deltas, any transcript),
\* the score returned by each of the three scorers lies in [0,100].
C14_ScoresWithinRange ==
    /\ scored.outcome.check.score >= 0
    /\ scored.outcome.check.score <= 10000

\* The face scorer on 15 samples with two faces more than a frame apart.
C14_Witness ==
    /\ scored.scorer = "face"
    /\ scored.fault = "none"
    /\ Len(VideoSeq[scored.input].frames) = 15
    /\ scored.outcome.check.details = "Inconsistent face detection"
    /\ scored.outcome.check.score > 0

ThresholdOf(scorer) ==
    IF scorer = "face" THEN 7000 ELSE IF scorer = "speech" THEN 6000 ELSE 5000

\* C15: in every scorer result, passed is true if and only if the reported
\* score (the value in the result, rounded to two decimals) is at or above
\* the scorer's threshold: 70 for the face scorer, 60 for the speech scorer,
\* 50 for the transcript scorer.
C15_PassedIffReportedScoreAtThreshold ==
    scored.scorer # "none" =>
        (scored.outcome.check.passed
            <=> scored.outcome.check.score >= ThresholdOf(scored.scorer))

\* The face scorer sampled no frame of the video it was given.
NoFrameSampled ==
    /\ scored.scorer = "face"
    /\ scored.fault = "none"
    /\ \/ face_invalid(VideoSeq[scored.input])
       \/ Len(VideoSeq[scored.input].frames) = 0

\* C20: whenever the face scorer ends up with zero sampled frames (video of
\* 0.5 s, no readable frame, or invalid frame count), it returns score 0,
\* passed false and the details "video too short or invalid", without running
\* face detection and without raising.
C20_ZeroSamplesIsTooShort ==
    NoFrameSampled =>
        /\ ~scored.outcome.exc
        /\ scored.outcome.detections = 0
        /\ scored.outcome.check = Check(FALSE, 0, "Video too short or invalid")

\* The input of the validate_video run in progress or just finished.
RunInputNow == RunInputSeq[vrun.inp]

\* The entry `name` of the returned verdict's checks map.
VerdictChecks(name) == { c[2] : c \in { d \in verdict.checks : d[1] = name } }

\* C12: for every outcome of the three scorers and of the transcript service
\* (success, failure result, or exception inside a scorer), validate_video
\* returns a verdict with the fields is_valid, confidence, reason and checks
\* and never raises; the worst case is is_valid false with confidence 0 and
\* a diagnostic reason.
C12_AlwaysAVerdict ==
    /\ vpc # "raised"
    /\ vpc = "done" =>
          /\ DOMAIN verdict = {"is_valid", "confidence", "reason", "checks"}
          /\ verdict.is_valid \in BOOLEAN
          /\ verdict.confidence \in 0..10000
          /\ verdict.reason.text \notin {"", "Unknown"}
          /\ verdict.is_valid => verdict.confidence >= 7000
          /\ verdict.confidence = 0 => ~verdict.is_valid

\* A run returned although the face and the speaking scorer both raised and
\* the transcript service failed: not valid, confidence 0, a reason.
C12_Witness ==
    /\ vpc = "done"
    /\ RunInputNow.exists
    /\ RunInputNow.face_fault = "capture"
    /\ RunInputNow.speech_fault = "capture"
    /\ ~verdict.is_valid
    /\ verdict.confidence = 0
    /\ verdict.reason.text = "Insufficient face detection"

\* The scorer given `fault` on `video` raises inside its try block.
FaceRaises(inp) ==
    \/ inp.face_fault = "capture"
    \/ /\ inp.face_fault = "detector"
       /\ ~face_invalid(VideoSeq[inp.video])
       /\ Len(VideoSeq[inp.video].frames) > 0

SpeechRaises(inp) ==
    \/ inp.speech_fault = "capture"
    \/ /\ inp.speech_fault = "detector"
       /\ ~speech_invalid(VideoSeq[inp.video])
       /\ Len(VideoSeq[inp.video].frames) > 0

TranscriptRaises(inp) ==
    /\ inp.audio_path /\ inp.api_key /\ inp.audio_exists
    /\ ServiceSeq[inp.service] = Answering(PollSeq[1], NotAString)

\* C13: an exception raised inside one scorer (face, speech or transcript)
\* is caught by that scorer, which returns its default failed result (passed
\* false, score 0, an error detail); the other scorers still run and the
\* verdict's checks map still contains the entries face_detection,
\* speaking_person and transcript_content.
C13_ScorerExceptionContained ==
    /\ vpc # "raised"
    /\ (vpc = "done" /\ RunInputNow.exists) =>
          /\ { c[1] : c \in verdict.checks }
                = {"face_detection", "speaking_person", "transcript_content"}
          /\ Cardinality(verdict.checks) = 3
          /\ {"face", "speech"} \subseteq Range(vrun.trace)
          /\ FaceRaises(RunInputNow) =>
                VerdictChecks("face_detection")
                    = { Check(FALSE, 0, "Error during face detection") }
          /\ SpeechRaises(RunInputNow) =>
                VerdictChecks("speaking_person")
                    = { Check(FALSE, 0, "Error during speaking detection") }
          /\ TranscriptRaises(RunInputNow) =>
                /\ "transcript" \in Range(vrun.trace)
                /\ VerdictChecks("transcript_content")
                       = { Check(FALSE, 0, "Error analyzing transcript") }

\* The speaking scorer raised on its first frame; the face scorer before it
\* and the transcript scorer after it returned their results.
C13_Witness ==
    /\ vpc = "done"
    /\ RunInputNow.exists
    /\ RunInputNow.speech_fault = "detector"
    /\ SpeechRaises(RunInputNow)
    /\ VerdictChecks("speaking_person")
           = { Check(FALSE, 0, "Error during speaking detection") }
    /\ \E c \in VerdictChecks("face_detection") : c.passed
    /\ \E c \in VerdictChecks("transcript_content") : c.passed

\* The service refuses the upload or the request, or none of the five polls
\* reports completed: each reports error, answers non-200, or is still
\* queued or processing.
ServiceGivesNoTranscript(s) ==
    \/ s.upload # 200
    \/ s.request # 200
    \/ \A a \in 1..5 :
          PollAt(s.polls, a) \in {"error", "http500", "queued", "processing"}

StepsOf(inp) ==
    IF ~inp.exists THEN << "return" >>
    ELSE << "face", "speech" >>
         \o (IF inp.audio_path /\ inp.api_key /\ inp.audio_exists
             THEN << "transcript" >> ELSE << >>)
         \o << "score", "return" >>

IsPrefix(s, t) == Len(s) <= Len(t) /\ \A i \in 1..Len(s) : s[i] = t[i]

\* C19: in every validate_video run on an existing file the steps happen in
\* the order face check, speech check, optional transcript check, scoring,
\* return: the transcript check is invoked only when audio_path and api_key
\* are given and the audio file exists, confidence is computed only after all
\* performed checks have returned, and no state from one run influences a
\* later run (two runs with the same scorer outcomes return the same
\* verdict).
C19_StepsInOrderAndStateless ==
    /\ vrun.inp # 0 =>
          /\ IsPrefix(vrun.trace, StepsOf(RunInputNow))
          /\ vpc = "done" => vrun.trace = StepsOf(RunInputNow)
          /\ "score" \notin Range(vrun.trace) => vrun.confidence = 0
    /\ (vpc = "done" /\ vprev.inp = vrun.inp) => verdict = vprev.verdict

\* A second run with a transcript check returned what the run before it, on
\* the same input, had returned.
C19_Witness ==
    /\ vpc = "done"
    /\ vprev.inp = vrun.inp
    /\ vrun.trace = << "face", "speech", "transcript", "score", "return" >>
    /\ verdict = vprev.verdict
    /\ verdict.is_valid

\* C16: every polling-style call to the transcription service terminates:
\* whatever sequence of statuses the service returns (including staying
\* queued or processing forever), analyze_audio stops polling after a fixed,
\* bounded number of attempts and returns a (degraded) result instead of
\* hanging.
C16_PollingTerminates == (apc = "polling") ~> (apc = "returned")

\* The stream of the sampling loop in progress or just left.
StreamNow == StreamSeq[loop.stream]

\* C21: the frame sampling loop of a scorer produces zero samples for any
\* source that is shorter than one sampling interval (fewer frames than
\* sample_interval), and this is not an error.
C21_ShortSourceNoSamples ==
    (loop.at = "released" /\ ~StreamNow.endless
        /\ StreamNow.readable < loop.interval) =>
        /\ loop.frames_sampled = 0
        /\ loop.samples = << >>

\* What the loop's counters may be at any moment: at most 15 samples, the
\* samples the multiples of the interval in increasing order, no read beyond
\* the index the loop stands at.
SamplingBounded ==
    /\ loop.frames_sampled = Len(loop.samples)
    /\ loop.frames_sampled <= 15
    /\ \A j \in 1..Len(loop.samples) : loop.samples[j] = (j - 1) * loop.interval
    /\ loop.reads <= loop.frame_idx + 1

\* What the loop leaves behind: the interval of its scorer, every multiple of
\* the interval the stream holds up to the 15th, and no read after the 15th
\* sample or after the read that found the stream exhausted.
SamplingExact ==
    loop.at = "released" =>
        /\ loop.interval
               = IF StreamNow.fps <= 0 THEN 30
                 ELSE Max(1, (StreamNow.fps * (IF loop.scorer = "face" THEN 2 ELSE 1))
                                 \div 10)
        /\ loop.frames_sampled
               = IF StreamNow.endless THEN 15
                 ELSE Min(15, (StreamNow.readable + loop.interval - 1)
                                  \div loop.interval)
        /\ loop.reads
               = IF loop.frames_sampled = 15 THEN 14 * loop.interval + 1
                 ELSE StreamNow.readable + 1

\* C22: for every source (finite or endless) and every frame rate, the
\* sampling loop terminates with at most 15 samples; the sampled frames are
\* exactly the frames whose index is a multiple of sample_interval =
\* max(1, floor(fps * seconds)) (30 when fps <= 0), taken in increasing index
\* order, and no frame is read after the 15th sample or after the source is
\* exhausted.
C22_SamplingTerminatesBounded ==
    /\ [](SamplingBounded /\ SamplingExact)
    /\ (loop.at = "loop") ~> (loop.at = "released")

\* The speaking scorer's loop left a stream without end and without an fps
\* after its 15th sample, frame 420, having read 421 frames.
C22_Witness ==
    /\ loop.at = "released"
    /\ StreamNow.endless
    /\ loop.interval = 30
    /\ Len(loop.samples) = 15
    /\ loop.samples[15] = 420
    /\ loop.reads = 421

\* The transcript the service of the last transcript scorer call delivers,
\* and its text when the service is one of those that deliver a text.
TranscriptGiven == get_transcript_sample(ServiceSeq[scored.input])

TextGiven ==
    IF scored.input > Len(ServiceSeq) - Len(TextSeq)
    THEN TextSeq[scored.input - (Len(ServiceSeq) - Len(TextSeq))]
    ELSE << >>

TranscriptScored ==
    /\ scored.scorer = "transcript"
    /\ TranscriptGiven.kind = "text"
    /\ TranscriptGiven.length >= 10

BaseScore == Min(60, 10 * TranscriptGiven.interview)

\* C23: for a transcript of at least 10 characters, the transcript scorer's
\* relevance equals clamp(0,100, base - min(base, 15*offdomain_hits)
\* + 15*has_intro + 15*has_background + 10*has_skills) with base =
\* min(60, 10*interview_hits): the off-domain penalty can only cancel the
\* keyword base score, never the structural bonuses, which are added after
\* the penalty.
C23_RelevanceFormula ==
    TranscriptScored =>
        /\ scored.outcome.check.score
               = 100 * Max(0, Min(100,
                     BaseScore - Min(BaseScore, 15 * TranscriptGiven.non_interview)
                     + (IF TranscriptGiven.intro THEN 15 ELSE 0)
                     + (IF TranscriptGiven.background THEN 15 ELSE 0)
                     + (IF TranscriptGiven.skills THEN 10 ELSE 0)))
        /\ scored.outcome.check.score
               >= 100 * ((IF TranscriptGiven.intro THEN 15 ELSE 0)
                         + (IF TranscriptGiven.background THEN 15 ELSE 0)
                         + (IF TranscriptGiven.skills THEN 10 ELSE 0))

\* A text with one interview keyword, three off-domain keywords, an
\* introduction, a background and a skill: the penalty took the 10 points of
\* the keyword and the 40 points of the bonuses stayed.
C23_Witness ==
    /\ TranscriptScored
    /\ TranscriptGiven.interview = 1
    /\ TranscriptGiven.non_interview = 3
    /\ TranscriptGiven.intro /\ TranscriptGiven.background /\ TranscriptGiven.skills
    /\ scored.outcome.check.score = 4000

\* The different keywords of a list that a text contains.
KeywordsIn(keywords, text) ==
    { keywords[k] : k \in { n \in 1..Len(keywords) : Contains(lower(text), keywords[n]) } }

ThreeOffDomainOneDomain ==
    /\ TranscriptScored
    /\ TextGiven # << >>
    /\ Cardinality(KeywordsIn(non_interview_keywords, TextGiven)) = 3
    /\ Cardinality(KeywordsIn(interview_keywords, TextGiven)) = 1

ZeroForOffDomain ==
    scored.outcome.check = Check(FALSE, 0, "Detected N non-interview keywords")

\* C24: every transcript that contains 3 off-domain keywords and 1
\* interview-domain keyword (whichever domain keyword it is) gets relevance
\* 0, passed false, and a reason stating that non-interview keywords were
\* detected.
C24_OffDomainGivesZero == ThreeOffDomainOneDomain => ZeroForOffDomain

\* C24 as amended: every transcript that contains 3 off-domain keywords and
\* 1 interview-domain keyword and matches none of the introduction,
\* background and skills patterns gets relevance 0, passed false, and a
\* reason stating that non-interview keywords were detected.
C24_OffDomainWithoutPatternGivesZero ==
    (ThreeOffDomainOneDomain
        /\ ~has_introduction(lower(TextGiven))
        /\ ~has_background(lower(TextGiven))
        /\ ~has_skills(lower(TextGiven))) => ZeroForOffDomain

\* Three off-domain keywords and "position", which the list holds twice.
C24_Witness ==
    /\ ThreeOffDomainOneDomain
    /\ TextGiven = WithKeyword(5)
    /\ TranscriptGiven.interview = 2
    /\ ZeroForOffDomain

\* C25: when the transcript is missing, empty or shorter than 10 characters,
\* check_transcript_content returns the default failed result (passed false,
\* score 0, details "No transcript available") without counting keywords or
\* matching patterns, and validate_video then uses the two-signal weighting.
C25_ShortTranscriptIsNoTranscript ==
    (vpc \in {"transcript_checked", "scored", "done"}
        /\ "transcript" \in Range(vrun.trace)
        /\ \/ get_transcript_sample(ServiceSeq[RunInputNow.service]).kind = "none"
           \/ /\ get_transcript_sample(ServiceSeq[RunInputNow.service]).kind = "text"
              /\ get_transcript_sample(ServiceSeq[RunInputNow.service]).length < 10) =>
        /\ vrun.transcript = Check(FALSE, 0, "No transcript available")
        /\ TranscriptOutcomeOf[half_up][RunInputNow.service].detections = 0
        /\ vpc = "done" =>
              /\ VerdictChecks("transcript_content")
                     = { Check(FALSE, 0, "No transcript available") }
              /\ verdict.confidence
                     \in round2(6 * vrun.face.score + 4 * vrun.speaking.score)

\* A run whose transcript has nine characters, with a keyword of each list.
C25_Witness ==
    /\ vpc = "done"
    /\ "transcript" \in Range(vrun.trace)
    /\ get_transcript_sample(ServiceSeq[RunInputNow.service]).kind = "text"
    /\ get_transcript_sample(ServiceSeq[RunInputNow.service]).length = 9
    /\ get_transcript_sample(ServiceSeq[RunInputNow.service]).interview = 1
    /\ verdict.confidence = 10000
    /\ VerdictChecks("transcript_content")
           = { Check(FALSE, 0, "No transcript available") }

\* The polls of the get_transcript_sample call in progress or just returned.
PollsNow == ServiceSeq[tsample.service].polls

\* C26: get_transcript_sample issues at most 5 polling requests for one
\* transcript; a non-200 answer or a status other than completed (including
\* error) each consume one attempt; it returns the transcript text exactly
\* when one of those at most 5 polls answers 200 with status completed, and
\* returns None otherwise.
C26_AtMostFivePolls ==
    /\ tsample.polls_sent <= 5
    /\ tsample.attempts
           = Cardinality({ a \in 1..tsample.polls_sent :
                             PollAt(PollsNow, a) \in {"error", "http500", "queued",
                                                      "processing"} })
    /\ tsample.at = "returned" =>
          /\ (tsample.result # NoTranscript)
                 <=> \E a \in 1..tsample.polls_sent : PollAt(PollsNow, a) = "completed"
          /\ tsample.result # NoTranscript =>
                 tsample.result = ServiceSeq[tsample.service].text
          /\ (tsample.polls_sent > 0 /\ tsample.result = NoTranscript
                 /\ PollAt(PollsNow, tsample.polls_sent) # "badjson") =>
                 tsample.polls_sent = 5

\* The job was completed at the fifth poll: four attempts consumed, five
\* requests sent, the text returned.
C26_Witness ==
    /\ tsample.at = "returned"
    /\ PollsNow = PollSeq[3]
    /\ tsample.attempts = 4
    /\ tsample.polls_sent = 5
    /\ tsample.result = ServiceSeq[tsample.service].text

\* C30: get_transcript_sample never deletes or replaces the input file at
\* audio_path, for every audio_path (including paths that do not contain
\* ".mp3"): the only file it removes is a temporary sample file distinct
\* from the input, and on every return path the input audio file still
\* exists.
C30_InputFileKept == AudioNameSeq[tsample.path] \in tsample.files

\* The job of the analyze_audio call in progress or just returned.
JobNow == JobSeq[arun.job]

\* C27: analyze_audio writes to the speech-analysis cache only a result built
\* from a completed transcription with words and positive duration: on every
\* failure path (upload or request non-200, polling non-200, status error, no
\* words, any exception) it returns the default zero-valued analysis and
\* leaves the cache unchanged, and on a cache hit it returns the cached
\* analysis without contacting the transcription service.
C27_OnlyCompletedAnalysesCached ==
    [][/\ speech' # speech =>
            /\ apc = "polling"
            /\ PollAt(JobNow.polls, arun.attempt) = "completed"
            /\ JobNow.words
            /\ arun'.result = Analysis(arun.path)
            /\ get_cached_analysis(speech', arun.path, TRUE) = Analysis(arun.path)
       /\ (apc' = "returned" /\ arun'.result = DefaultAnalysis) => speech' = speech
       /\ (apc \in {"upload", "request", "polling"} /\ apc' = "returned"
               /\ \/ JobNow.upload # 200
                  \/ JobNow.request # 200
                  \/ PollAt(JobNow.polls, Max(1, arun.attempt)) # "completed"
                  \/ ~JobNow.words) =>
            arun'.result = DefaultAnalysis
       /\ (apc \in {"idle", "returned"}
               /\ get_cached_analysis(speech, arun'.path, arun'.up) # NoAnalysis) =>
            /\ apc' = "returned"
            /\ arun'.result = get_cached_analysis(speech, arun'.path, arun'.up)
            /\ arun'.attempt = 0
            /\ speech' = speech]_vars

\* A call whose job ended in status error returned the default analysis
\* beside a cache that holds the analysis of an earlier call.
C27_Witness ==
    /\ apc = "returned"
    /\ arun.result = DefaultAnalysis
    /\ arun.attempt > 0
    /\ PollAt(JobNow.polls, arun.attempt) = "error"
    /\ arun.up
    /\ Len(speech) > 0
    /\ get_cached_analysis(speech, arun.path, TRUE) = NoAnalysis

\* C28: with the face and speech scores held fixed, validate_video's
\* confidence is monotonically non-decreasing in the transcript score: for
\* all transcript scores t1 <= t2 in [0,100], confidence with t1 is at most
\* confidence with t2, so a better transcript never turns a valid verdict
\* into an invalid one.
C28_ConfidenceMonotone ==
    compared.t1 <= compared.t2 =>
        /\ compared.c1 <= compared.c2
        /\ compared.valid1 => compared.valid2

\* C29: when validate_video runs without a transcript check (audio_path or
\* api_key absent, or the audio file missing) and the verdict is invalid, the
\* reason never blames transcript content: it is the face reason, the speech
\* reason or the generic multiple-checks-failed reason, never "Non-interview
\* content detected: ...".
C29_NoTranscriptNoBlame ==
    (vpc = "done" /\ RunInputNow.exists /\ "transcript" \notin Range(vrun.trace)
        /\ ~verdict.is_valid) =>
        verdict.reason.text \in {"Insufficient face detection",
                                 "No consistent speaking person detected",
                                 "Multiple validation checks failed"}

====
